---------------------------- MODULE Spec2Model ----------------------------
(***************************************************************************)
(* A model of the account API (user_api/api/account.py) and of the profile *)
(* API (user_api/api/profile.py) of edx-platform.                          *)
(*                                                                         *)
(* Python values are records [isstr, v]: a string is its sequence of       *)
(* one-character strings, any other value (None, an int) has isstr FALSE.  *)
(* An operation's outcome is a record [kind, val]: kind is "ok" for a      *)
(* normal return (val the returned value) or the name of the exception     *)
(* class that left the function.                                           *)
(***************************************************************************)
EXTENDS Integers, Sequences, FiniteSets, TLC

VARIABLES
    users,          \* rows of auth_user: [username, email, password, is_active]
    registrations,  \* rows of Registration: [user, activation_key]
    profiles,       \* rows of UserProfile: [user, year_of_birth]
    tags,           \* rows of UserOrgTag: [user, org, key, value]
    settings,       \* django.conf.settings: [SEGMENT_IO_LMS,
                    \* ECOMMERCE_API_URL, ECOMMERCE_API_SIGNING_KEY]
    log,            \* what the services wrote to the log
    course_modes,   \* rows of CourseMode: [course_id, mode_slug, sku]
    enrollments,    \* rows of CourseEnrollment: [user, course_id, is_active]
    storage,        \* the files of the profile image storage: [name, content]
    preferences,    \* per user: the stored language preference, None for none
    sessions,       \* per session: [user, data, override], data being the
                    \* entries of the session and override whether another
                    \* middleware set its language
    last,           \* the last API call: [op, args, result, emitted], emitted
                    \* being what it handed to the mailer or to analytics
    activations,    \* history: [first, again], the activation keys that
                    \* activate_account accepted once, and more than once
    fn_in,          \* arguments of the validator under test
    fn_out,         \* its outcome
    pc,             \* per racing create_account call: its position
    req,            \* per racing call: its arguments
    tx,             \* per racing call: the rows its open transaction wrote
    res,            \* per racing call: its outcome
    local           \* per racing call: its local variables

vars == <<users, registrations, profiles, tags, settings, log, course_modes,
          enrollments, storage, preferences, sessions, last, activations, fn_in, fn_out, pc, req, tx,
          res, local>>

storeVars == <<users, registrations, profiles, tags>>
fnVars == <<fn_in, fn_out>>
raceVars == <<pc, req, tx, res, local>>
commerceVars == <<course_modes, enrollments>>
langVars == <<preferences, sessions>>
siteVars == <<settings, log, commerceVars, storage, langVars>>

----------------------------------------------------------------------------
(* Python values *)

Str(s) == [isstr |-> TRUE, v |-> s]
None == [isstr |-> FALSE, v |-> <<>>]
PyInt(n) == [isstr |-> FALSE, v |-> <<n>>]
\* str() of a Python bool.
str(b) == IF b THEN "True" ELSE "False"
isinstance_basestring(x) == x.isstr
len(x) == Len(x.v)
Rep(c, n) == [i \in 1..n |-> c]

Ok(v) == [kind |-> "ok", val |-> v]
Raise(e) == [kind |-> e, val |-> None]

----------------------------------------------------------------------------
(* Length limits of account.py *)

USERNAME_MIN_LENGTH == 2
USERNAME_MAX_LENGTH == 30
EMAIL_MIN_LENGTH == 3
EMAIL_MAX_LENGTH == 254
PASSWORD_MIN_LENGTH == 2
PASSWORD_MAX_LENGTH == 75

Lower == {"a","b","c","d","e","f","g","h","i","j","k","l","m",
          "n","o","p","q","r","s","t","u","v","w","x","y","z"}
Upper == {"A","B","C","D","E","F","G","H","I","J","K","L","M",
          "N","O","P","Q","R","S","T","U","V","W","X","Y","Z"}
Digit == {"0","1","2","3","4","5","6","7","8","9"}

\* django.core.validators.validate_slug: ^[-a-zA-Z0-9_]+$
SlugChars == Lower \cup Upper \cup Digit \cup {"-", "_"}
validate_slug(s) == Len(s) > 0 /\ \A i \in 1..Len(s) : s[i] \in SlugChars

\* The pieces of s between the occurrences of the separator c.
RECURSIVE SplitAt(_, _)
SplitAt(s, c) ==
    IF \A i \in 1..Len(s) : s[i] # c THEN <<s>>
    ELSE LET k == CHOOSE i \in 1..Len(s) :
                      s[i] = c /\ \A j \in 1..(i - 1) : s[j] # c
         IN <<SubSeq(s, 1, k - 1)>> \o SplitAt(SubSeq(s, k + 1, Len(s)), c)

\* django.core.validators.validate_email: a dot-atom local part, "@", and a
\* domain of dot-separated labels ending in a top-level label of 2..6 letters.
AtomChars == Lower \cup Upper \cup Digit \cup
             {"-","!","#","$","%","&","+","/","=","?","^","_","|","~"}
IsAtom(a) == Len(a) > 0 /\ \A i \in 1..Len(a) : a[i] \in AtomChars
IsLabel(l) ==
    /\ Len(l) \in 1..63
    /\ l[1] \in Lower \cup Upper \cup Digit
    /\ l[Len(l)] \in Lower \cup Upper \cup Digit
    /\ \A i \in 1..Len(l) : l[i] \in Lower \cup Upper \cup Digit \cup {"-"}
IsTld(l) == Len(l) \in 2..6 /\ \A i \in 1..Len(l) : l[i] \in Lower \cup Upper
validate_email(s) ==
    LET parts == SplitAt(s, "@") IN
    /\ Len(parts) = 2
    /\ LET atoms == SplitAt(parts[1], ".")
           labels == SplitAt(parts[2], ".")
       IN /\ \A i \in 1..Len(atoms) : IsAtom(atoms[i])
          /\ Len(labels) >= 2
          /\ \A i \in 1..(Len(labels) - 1) : IsLabel(labels[i])
          /\ IsTld(labels[Len(labels)])

_validate_username(username) ==
    IF ~isinstance_basestring(username) THEN Raise("AccountUsernameInvalid")
    ELSE IF len(username) < USERNAME_MIN_LENGTH THEN Raise("AccountUsernameInvalid")
    ELSE IF len(username) > USERNAME_MAX_LENGTH THEN Raise("AccountUsernameInvalid")
    ELSE IF ~validate_slug(username.v) THEN Raise("AccountUsernameInvalid")
    ELSE Ok(None)

_validate_password_any(password, username) ==
    IF ~isinstance_basestring(password) THEN Raise("AccountPasswordInvalid")
    ELSE IF len(password) < PASSWORD_MIN_LENGTH THEN Raise("AccountPasswordInvalid")
    ELSE IF len(password) > PASSWORD_MAX_LENGTH THEN Raise("AccountPasswordInvalid")
    ELSE Ok(None)

_validate_password(password, username) ==
    IF ~isinstance_basestring(password) THEN Raise("AccountPasswordInvalid")
    ELSE IF len(password) < PASSWORD_MIN_LENGTH THEN Raise("AccountPasswordInvalid")
    ELSE IF len(password) > PASSWORD_MAX_LENGTH THEN Raise("AccountPasswordInvalid")
    ELSE IF password = username THEN Raise("AccountPasswordInvalid")
    ELSE Ok(None)

_validate_email(email) ==
    IF ~isinstance_basestring(email) THEN Raise("AccountEmailInvalid")
    ELSE IF len(email) < EMAIL_MIN_LENGTH THEN Raise("AccountEmailInvalid")
    ELSE IF len(email) > EMAIL_MAX_LENGTH THEN Raise("AccountEmailInvalid")
    ELSE IF ~validate_email(email.v) THEN Raise("AccountEmailInvalid")
    ELSE Ok(None)

----------------------------------------------------------------------------
(* The store.  A database is a record [users, registrations, profiles] of  *)
(* sets of rows.  auth_user rows are unique by username and by email;      *)
(* a Registration and a UserProfile refer to their user by username.       *)

Db(u, r, p) == [users |-> u, registrations |-> r, profiles |-> p]
EmptyDb == Db({}, {}, {})

\* The exceptions that intercept_errors lets through: UserApiRequestError and
\* its subclasses.
UserApiRequestErrors ==
    {"AccountUserAlreadyExists", "AccountUsernameInvalid", "AccountEmailInvalid",
     "AccountPasswordInvalid", "UserNotFound", "UserNotAuthorized"}

\* @intercept_errors(UserApiInternalError, ignore_errors=[UserApiRequestError])
intercept_errors(result) ==
    IF result.kind = "ok" \/ result.kind \in UserApiRequestErrors
    THEN result
    ELSE Raise("UserApiInternalError")

\* @transaction.commit_on_success: the writes of a call that raised are
\* rolled back, those of a call that returned are committed.
commit_always(before, out) == out

commit_on_success(before, out) ==
    IF out.result.kind = "ok"
    THEN out
    ELSE [result |-> out.result, db |-> before]

\* user.save(): the INSERT violates a uniqueness constraint when a row holds
\* the username or the email.
UserConflictsByUsername(db, username, email) ==
    \E u \in db.users : u.username = username

UserConflicts(db, username, email) ==
    \E u \in db.users : u.username = username \/ u.email = email

user_save(db, row) ==
    IF UserConflicts(db, row.username, row.email)
    THEN [err |-> "IntegrityError", db |-> db]
    ELSE [err |-> "none", db |-> [db EXCEPT !.users = @ \cup {row}]]

\* Registration.register(user): a fresh activation key, saved with the user.
Registration_register(db, username, key) ==
    [db EXCEPT !.registrations =
        @ \cup {[user |-> username, activation_key |-> key]}]

\* UserProfile(user=user).save(): every field at its default.
UserProfile_save(db, username) ==
    [db EXCEPT !.profiles = @ \cup {[user |-> username, year_of_birth |-> None]}]

\* Registration.activate(): the registration's user becomes active.
Registration_activate(db, reg) ==
    [db EXCEPT !.users =
        {IF u.username = reg.user THEN [u EXCEPT !.is_active = TRUE] ELSE u
           : u \in @}]

\* The three validation calls of create_account, in their order: the outcome
\* of the first that raises, or the normal return of the last.
validate_all_email_first(username, password, email) ==
    LET ve == _validate_email(email)
        vu == _validate_username(username)
    IN IF ve.kind # "ok" THEN ve
       ELSE IF vu.kind # "ok" THEN vu
       ELSE _validate_password(password, username)

validate_all(username, password, email) ==
    LET vu == _validate_username(username)
        vp == _validate_password(password, username)
    IN IF vu.kind # "ok" THEN vu
       ELSE IF vp.kind # "ok" THEN vp
       ELSE _validate_email(email)

\* User(username=username, email=email, is_active=False); set_password
NewUserActive(username, password, email) ==
    [username |-> username, email |-> email,
     password |-> password, is_active |-> TRUE]

NewUser(username, password, email) ==
    [username |-> username, email |-> email,
     password |-> password, is_active |-> FALSE]

\* The body of create_account.  key is the activation key uuid4 draws;
\* fault names the statement at which the store raises a DatabaseError
\* ("none": the store works).
create_account_body(db, username, password, email, key, fault) ==
    LET valid == validate_all(username, password, email) IN
    IF valid.kind # "ok" THEN [result |-> valid, db |-> db]
    ELSE
      LET saved == user_save(db, NewUser(username, password, email)) IN
      IF saved.err # "none"
      THEN [result |-> Raise("AccountUserAlreadyExists"), db |-> saved.db]
      ELSE IF fault = "register"
      THEN [result |-> Raise("DatabaseError"), db |-> saved.db]
      ELSE
        LET registered == Registration_register(saved.db, username, key) IN
        IF fault = "profile"
        THEN [result |-> Raise("DatabaseError"), db |-> registered]
        ELSE [result |-> Ok(key), db |-> UserProfile_save(registered, username)]

create_account(db, username, password, email, key, fault) ==
    LET out == commit_on_success(db,
                   create_account_body(db, username, password, email, key, fault))
    IN [result |-> intercept_errors(out.result), db |-> out.db]

\* check_account_exists: "email" is appended before "username".
check_account_exists(db, username, email) ==
    LET e == IF email # None /\ \E u \in db.users : u.email = email
             THEN <<"email">> ELSE <<>>
        n == IF username # None /\ \E u \in db.users : u.username = username
             THEN <<"username">> ELSE <<>>
    IN e \o n

account_info(db, username) ==
    IF \E u \in db.users : u.username = username
    THEN LET user == CHOOSE u \in db.users : u.username = username
         IN Ok([username |-> username, email |-> user.email,
                is_active |-> user.is_active])
    ELSE Ok(None)

activate_account_lenient(db, activation_key) ==
    IF \E r \in db.registrations : r.activation_key = activation_key
    THEN LET registration == CHOOSE r \in db.registrations :
                                  r.activation_key = activation_key
         IN [result |-> Ok(None), db |-> Registration_activate(db, registration)]
    ELSE [result |-> Ok(None), db |-> db]

activate_account_once(db, activation_key) ==
    IF \E r \in db.registrations :
          /\ r.activation_key = activation_key
          /\ \E u \in db.users : u.username = r.user /\ ~u.is_active
    THEN LET registration == CHOOSE r \in db.registrations :
                                  r.activation_key = activation_key
         IN [result |-> Ok(None), db |-> Registration_activate(db, registration)]
    ELSE [result |-> Raise("UserNotAuthorized"), db |-> db]

activate_account(db, activation_key) ==
    IF \E r \in db.registrations : r.activation_key = activation_key
    THEN LET registration == CHOOSE r \in db.registrations :
                                  r.activation_key = activation_key
         IN [result |-> Ok(None), db |-> Registration_activate(db, registration)]
    ELSE [result |-> Raise("UserNotAuthorized"), db |-> db]

\* request_password_change: the form is valid when a user has the e-mail
\* address, and saving it mails the reset link.
request_password_change(db, email) ==
    IF \E u \in db.users : u.email = email
    THEN [result |-> Ok(None), emitted |-> <<[reset_link_to |-> email]>>]
    ELSE [result |-> Raise("UserNotFound"), emitted |-> <<>>]

----------------------------------------------------------------------------
(* The profile API *)

\* datetime.datetime.now(UTC).year
CurrentYear == 2015
\* getattr(settings, 'EMAIL_OPTIN_MINIMUM_AGE', 13)
EMAIL_OPTIN_MINIMUM_AGE == 13

\* get_account_settings(user)['year_of_birth']: the value of the user's profile.
get_account_settings(db, username) ==
    CHOOSE p \in db.profiles : p.user = username

of_age_always(year_of_birth) == TRUE

of_age_inclusive(year_of_birth) ==
    \/ year_of_birth = None
    \/ CurrentYear - year_of_birth.v[1] >= EMAIL_OPTIN_MINIMUM_AGE

of_age(year_of_birth) ==
    \/ year_of_birth = None
    \/ CurrentYear - year_of_birth.v[1] > EMAIL_OPTIN_MINIMUM_AGE

\* UserOrgTag.objects.get_or_create(user, org, key) followed by the write of
\* preference.value and preference.save(): the row of (user, org, key) is
\* created when absent and holds the new value afterwards.
UserOrgTag_insert(rows, username, org, key, value) ==
    rows \cup {[user |-> username, org |-> org, key |-> key, value |-> value]}

UserOrgTag_upsert(rows, username, org, key, value) ==
    {t \in rows : ~(t.user = username /\ t.org = org /\ t.key = key)}
        \cup {[user |-> username, org |-> org, key |-> key, value |-> value]}

\* _track_update_email_opt_in: the event analytics.track is called with.
_track_update_email_opt_in(user_id, organization, opt_in) ==
    [user_id |-> user_id,
     name |-> IF opt_in THEN "edx.bi.user.org_email.opted_in"
              ELSE "edx.bi.user.org_email.opted_out",
     category |-> "communication",
     label |-> organization]

\* @intercept_errors(ProfileInternalError, ignore_errors=[ProfileRequestError])
profile_intercept_errors(result) ==
    IF result.kind = "ok" \/ result.kind \in {"ProfileRequestError", "ProfileUserNotFound"}
    THEN result
    ELSE Raise("ProfileInternalError")

\* update_email_opt_in.  track_raises: the analytics call raises (it is made
\* only when analytics is configured); the tag is saved before it.
\* An update_email_opt_in that reports the value it stored.
update_email_opt_in_stored(db, rows, cfg, username, org, optin, track_raises) ==
    LET year_of_birth == get_account_settings(db, username).year_of_birth
        value == str(optin /\ of_age(year_of_birth))
        saved == UserOrgTag_upsert(rows, username, org, "email-optin", value)
    IN
    IF cfg.SEGMENT_IO_LMS
    THEN IF track_raises
         THEN [result |-> profile_intercept_errors(Raise("Exception")),
               tags |-> saved, emitted |-> <<>>]
         ELSE [result |-> Ok(None), tags |-> saved,
               emitted |-> <<_track_update_email_opt_in(
                                 username, org, optin /\ of_age(year_of_birth))>>]
    ELSE [result |-> Ok(None), tags |-> saved, emitted |-> <<>>]

update_email_opt_in(db, rows, cfg, username, org, optin, track_raises) ==
    LET year_of_birth == get_account_settings(db, username).year_of_birth
        value == str(optin /\ of_age(year_of_birth))
        saved == UserOrgTag_upsert(rows, username, org, "email-optin", value)
    IN
    IF cfg.SEGMENT_IO_LMS
    THEN IF track_raises
         THEN [result |-> profile_intercept_errors(Raise("Exception")),
               tags |-> saved, emitted |-> <<>>]
         ELSE [result |-> Ok(None), tags |-> saved,
               emitted |-> <<_track_update_email_opt_in(username, org, optin)>>]
    ELSE [result |-> Ok(None), tags |-> saved, emitted |-> <<>>]

----------------------------------------------------------------------------
(* Inputs *)

\* Activation keys: uuid4().hex, shortened to one hexadecimal digit.
MaxKeys == 3
HexDigits == <<"1","2","3","4","5","6","7","8","9","a","b","c","d","e","f">>
Keys == {Str(<<HexDigits[i]>>) : i \in 1..MaxKeys}

bob == Str(<<"b","o","b">>)
alice == Str(<<"a","l","-","1","c","e">>)
secret == Str(<<"s","e","c","r","e","t">>)
bob_mail == Str(<<"b","@","x",".","i","o">>)
alice_mail == Str(<<"a","+","l","@","e","d","-","x",".","o","r","g">>)

UsernameInputs == {bob, alice, Str(<<"b"," ","b">>)}
PasswordInputs == {secret, Str(<<"s">>)}
EmailInputs == {bob_mail, alice_mail, Str(<<"b","o","b","@","x">>)}
KeyInputs == Keys \cup {Str(<<>>)}
Orgs == {"edX", "MITx"}
Procs == {"p1", "p2"}
Ages == {12, 13, 14}
YearInputs == {None} \cup {PyInt(CurrentYear - a) : a \in Ages}

----------------------------------------------------------------------------
(* The account and profile services, one call at a time *)

TheDb == Db(users, registrations, profiles)

Called(op, args, result, emitted) ==
    last' = [op |-> op, args |-> args, result |-> result, emitted |-> emitted]

NoCall == [op |-> "none", args |-> <<>>, result |-> Ok(None), emitted |-> <<>>]

Commit(db) ==
    /\ users' = db.users
    /\ registrations' = db.registrations
    /\ profiles' = db.profiles

FreshKeys == Keys \ {r.activation_key : r \in registrations}

CreateAccountWith(username, password, email, key, fault) ==
    LET out == create_account(TheDb, username, password, email, key, fault) IN
    /\ Commit(out.db)
    /\ Called("create_account", <<username, password, email>>, out.result, <<>>)
    /\ UNCHANGED <<tags, siteVars, activations, fnVars, raceVars>>

\* The keys uuid4 may draw in a call: any fresh key; one stands for all of
\* them in a call that ends before it draws its key.
KeyDraws(username, password, email) ==
    LET any == CHOOSE k \in FreshKeys : TRUE IN
    IF create_account_body(TheDb, username, password, email, any, "none").result.kind = "ok"
    THEN FreshKeys
    ELSE {any}

CreateAccount ==
    \E username \in UsernameInputs, password \in PasswordInputs, email \in EmailInputs :
        \E key \in KeyDraws(username, password, email) :
            CreateAccountWith(username, password, email, key, "none")

\* create_account with the store raising at its second or third write.
CreateAccountFault ==
    \E username \in {bob, alice}, email \in {bob_mail, alice_mail},
       fault \in {"register", "profile"} :
        \E key \in KeyDraws(username, secret, email) :
            CreateAccountWith(username, secret, email, key, fault)

CheckAccountExists ==
    \E username \in {bob, None}, email \in {alice_mail, None} :
        /\ Called("check_account_exists", <<username, email>>,
                  Ok(check_account_exists(TheDb, username, email)), <<>>)
        /\ UNCHANGED <<storeVars, siteVars, activations, fnVars, raceVars>>

AccountInfo ==
    \E username \in {bob, alice} :
        /\ Called("account_info", <<username>>,
                  intercept_errors(account_info(TheDb, username)), <<>>)
        /\ UNCHANGED <<storeVars, siteVars, activations, fnVars, raceVars>>

ActivateAccount ==
    \E key \in KeyInputs :
        LET out == activate_account(TheDb, key) IN
        /\ Commit(out.db)
        /\ Called("activate_account", <<key>>, intercept_errors(out.result), <<>>)
        /\ activations' =
              IF out.result.kind # "ok" THEN activations
              ELSE IF key \in activations.first
              THEN [activations EXCEPT !.again = @ \cup {key}]
              ELSE [activations EXCEPT !.first = @ \cup {key}]
        /\ UNCHANGED <<tags, siteVars, fnVars, raceVars>>

RequestPasswordChange ==
    \E email \in {bob_mail} :
        LET out == request_password_change(TheDb, email) IN
        /\ Called("request_password_change", <<email>>,
                  intercept_errors(out.result), out.emitted)
        /\ UNCHANGED <<storeVars, siteVars, activations, fnVars, raceVars>>

\* The record of the call holds, after its arguments, whether its analytics
\* call raised.
UpdateEmailOptInWith(username, org, optin, track_raises) ==
    LET out == update_email_opt_in(TheDb, tags, settings, username, org,
                                   optin, track_raises)
    IN
    /\ track_raises => settings.SEGMENT_IO_LMS
    /\ tags' = out.tags
    /\ Called("update_email_opt_in", <<username, org, optin, track_raises>>,
              out.result, out.emitted)
    /\ UNCHANGED <<users, registrations, profiles, siteVars, activations, fnVars, raceVars>>

\* In the account service's specification: opting in, one organisation, no
\* analytics.
UpdateEmailOptIn ==
    \E u \in users :
        UpdateEmailOptInWith(u.username, "edX", TRUE, FALSE)

\* profile.year_of_birth = year; profile.save()
SetYearOfBirth ==
    \E p \in profiles, year \in YearInputs :
        /\ profiles' = (profiles \ {p}) \cup {[p EXCEPT !.year_of_birth = year]}
        /\ Called("set_year_of_birth", <<p.user, year>>, Ok(None), <<>>)
        /\ UNCHANGED <<users, registrations, tags, siteVars, activations, fnVars, raceVars>>

\* No stored preference, no session.
IdleLang == /\ preferences = <<>>
            /\ sessions = <<>>

\* No commerce data, nothing logged, an empty image storage.
IdleSite == /\ log = {}
            /\ course_modes = {}
            /\ enrollments = {}
            /\ storage = {}
            /\ IdleLang

\* django.conf.settings, with the settings the services read.
Settings(segment_io, api_url, signing_key) ==
    [SEGMENT_IO_LMS |-> segment_io,
     ECOMMERCE_API_URL |-> api_url,
     ECOMMERCE_API_SIGNING_KEY |-> signing_key]

IdleFn == /\ fn_in = [fn |-> "none", args |-> <<>>]
          /\ fn_out = Ok(None)
IdleRace == /\ pc = [p \in Procs |-> "done"]
            /\ req = [p \in Procs |-> <<>>]
            /\ tx = [p \in Procs |-> EmptyDb]
            /\ res = [p \in Procs |-> Ok(None)]
            /\ local = [p \in Procs |-> <<>>]

Init ==
    /\ users = {}
    /\ registrations = {}
    /\ profiles = {}
    /\ tags = {}
    /\ settings = Settings(FALSE, None, None)
    /\ IdleSite
    /\ last = NoCall
    /\ activations = [first |-> {}, again |-> {}]
    /\ IdleFn
    /\ IdleRace

Next ==
    \/ CreateAccount
    \/ CheckAccountExists
    \/ AccountInfo
    \/ ActivateAccount
    \/ RequestPasswordChange
    \/ UpdateEmailOptIn

Spec == Init /\ [][Next]_vars

\* The same services over a store that may fail inside create_account.
NextFault == Next \/ CreateAccountFault
SpecFault == Init /\ [][NextFault]_vars

----------------------------------------------------------------------------
(* Properties of the account service *)

\* The arguments of the call a step made pass the three validators.
ValidTriple(a) ==
    /\ _validate_username(a[1]).kind = "ok"
    /\ _validate_password(a[2], a[1]).kind = "ok"
    /\ _validate_email(a[3]).kind = "ok"

\* An account holds the username or the e-mail address before the step.
Taken(username, email) ==
    \E u \in users : u.username = username \/ u.email = email

IsActive(rows, username) ==
    \E u \in rows : u.username = username /\ u.is_active

AccountStoreUnchanged == UNCHANGED <<users, registrations, profiles>>

\* C1: create_account with a valid triple that collides with no account
\* returns a non-empty activation key and stores the account inactive, with a
\* registration holding that key; and an account that is not active before a
\* step (or did not exist) is active after it only if the step is
\* activate_account called with the key of that account's registration.
C1_InactiveUntilActivated ==
    [][ /\ ( /\ last'.op = "create_account"
             /\ ValidTriple(last'.args)
             /\ ~Taken(last'.args[1], last'.args[3]) )
           => /\ last'.result.kind = "ok"
              /\ isinstance_basestring(last'.result.val)
              /\ len(last'.result.val) > 0
              /\ \E u \in users' : /\ u.username = last'.args[1]
                                   /\ u.email = last'.args[3]
                                   /\ ~u.is_active
              /\ \E r \in registrations' : /\ r.user = last'.args[1]
                                           /\ r.activation_key = last'.result.val
        /\ \A u \in users' :
             (u.is_active /\ ~IsActive(users, u.username))
               => /\ last'.op = "activate_account"
                  /\ \E r \in registrations : /\ r.user = u.username
                                              /\ r.activation_key = last'.args[1]
      ]_vars

\* An account was activated with its key while another, created before or
\* after it, is still inactive.
C1_Witness ==
    /\ last.op = "activate_account"
    /\ last.result.kind = "ok"
    /\ \E r \in registrations : /\ r.activation_key = last.args[1]
                                /\ IsActive(users, r.user)
    /\ \E u \in users : ~u.is_active

\* C2: create_account with valid arguments whose username or e-mail address
\* an account already holds raises AccountUserAlreadyExists and leaves the
\* accounts, registrations and profiles as they were.
C2_DuplicateRejected ==
    [][ ( /\ last'.op = "create_account"
          /\ ValidTriple(last'.args)
          /\ Taken(last'.args[1], last'.args[3]) )
        => /\ last'.result = Raise("AccountUserAlreadyExists")
           /\ AccountStoreUnchanged
      ]_vars

\* A call with a new username and the e-mail address of an existing account
\* was rejected.
C2_Witness ==
    /\ last.op = "create_account"
    /\ last.result.kind = "AccountUserAlreadyExists"
    /\ \A u \in users : u.username # last.args[1]
    /\ \E u \in users : u.email = last.args[3]

\* C4: in every committed state every account has exactly one registration
\* and exactly one profile, every registration and every profile belongs to
\* an account, and usernames are unique; this holds also after calls in which
\* the store failed once the user row was written, and such a call leaves no
\* row of the user it tried to create.
C4_AccountCreationAtomic ==
    /\ \A u \in users :
         /\ Cardinality({v \in users : v.username = u.username}) = 1
         /\ Cardinality({r \in registrations : r.user = u.username}) = 1
         /\ Cardinality({q \in profiles : q.user = u.username}) = 1
    /\ \A r \in registrations : \E u \in users : u.username = r.user
    /\ \A q \in profiles : \E u \in users : u.username = q.user
    /\ (last.op = "create_account" /\ last.result.kind = "UserApiInternalError")
          => \A u \in users : u.username # last.args[1]

\* A create_account call failed in the store, after validation and the
\* uniqueness check, while an earlier account exists.
C4_Witness ==
    /\ last.op = "create_account"
    /\ last.result.kind = "UserApiInternalError"
    /\ users # {}

\* The registrations that hold the key, before the step.
Matching(key) == {r \in registrations : r.activation_key = key}

Activated(rows, username) ==
    {IF u.username = username THEN [u EXCEPT !.is_active = TRUE] ELSE u : u \in rows}

\* C5: activate_account with a key no registration holds raises
\* UserNotAuthorized and changes nothing; with a key a registration holds it
\* returns normally, that registration's account is active afterwards and
\* every other row is as before; called for an account that is already active
\* it returns normally too and leaves the store as it was.
C5_ActivateAccount ==
    [][ last'.op = "activate_account" =>
          IF Matching(last'.args[1]) = {}
          THEN /\ last'.result = Raise("UserNotAuthorized")
               /\ UNCHANGED storeVars
          ELSE /\ last'.result = Ok(None)
               /\ \A r \in Matching(last'.args[1]) :
                    /\ users' = Activated(users, r.user)
                    /\ IsActive(users', r.user)
                    /\ IsActive(users, r.user) => UNCHANGED storeVars
               /\ UNCHANGED <<registrations, profiles, tags>>
      ]_vars

\* The call accepted a key that had been accepted before, while another
\* account is still inactive.
C5_Witness ==
    /\ last.op = "activate_account"
    /\ last.result = Ok(None)
    /\ last.args[1] \in activations.again
    /\ \E u \in users : ~u.is_active

C7_ValidationOrder ==
    [][ last'.op = "create_account" =>
          LET a == last'.args IN
          /\ _validate_username(a[1]).kind # "ok"
               => /\ last'.result.kind = "AccountUsernameInvalid"
                  /\ UNCHANGED storeVars
          /\ ( /\ _validate_username(a[1]).kind = "ok"
               /\ _validate_password(a[2], a[1]).kind # "ok" )
               => /\ last'.result.kind = "AccountPasswordInvalid"
                  /\ UNCHANGED storeVars
          /\ ( /\ _validate_username(a[1]).kind = "ok"
               /\ _validate_password(a[2], a[1]).kind = "ok"
               /\ _validate_email(a[3]).kind # "ok" )
               => /\ last'.result.kind = "AccountEmailInvalid"
                  /\ UNCHANGED storeVars
      ]_vars

\* A call with an invalid username, an invalid password and an invalid e-mail
\* address was refused for its username, with accounts in the store.
C7_Witness ==
    /\ last.op = "create_account"
    /\ last.result.kind = "AccountUsernameInvalid"
    /\ _validate_password(last.args[2], last.args[1]).kind # "ok"
    /\ _validate_email(last.args[3]).kind # "ok"
    /\ users # {}

----------------------------------------------------------------------------
(* The validators on their own *)

Pending == [kind |-> "pending", val |-> None]

ValueInputs ==
    {None, Str(<<>>), Str(<<"s">>), Str(<<"p","w">>), bob, Str(<<"B","o","b">>),
     secret, alice, Str(<<"b"," ","b">>), Str(<<"b","_","-","9">>),
     Str(Rep("x", 30)), Str(Rep("x", 31)), Str(Rep("x", 75)), Str(Rep("x", 76))}

MailInputs ==
    {None, Str(<<"b","@">>), bob_mail, alice_mail, Str(<<"b","o","b","@","x">>),
     Str(<<"b","o","b",".","x",".","i","o">>),
     Str(<<"a","@","b","@","x",".","i","o">>),
     Str(<<"a","@","x",".","c","0","m">>),
     Str(Rep("a", 249) \o <<"@","x",".","i","o">>),
     Str(Rep("a", 250) \o <<"@","x",".","i","o">>)}

FnInputs ==
    {[fn |-> "_validate_username", args |-> <<u>>] : u \in ValueInputs}
    \cup {[fn |-> "_validate_password", args |-> <<pw, u>>] :
             pw \in ValueInputs, u \in ValueInputs}
    \cup {[fn |-> "_validate_email", args |-> <<e>>] : e \in MailInputs}

ValidateUsername ==
    /\ fn_in.fn = "_validate_username"
    /\ fn_out = Pending
    /\ fn_out' = _validate_username(fn_in.args[1])
    /\ UNCHANGED <<storeVars, siteVars, last, activations, fn_in, raceVars>>

ValidatePassword ==
    /\ fn_in.fn = "_validate_password"
    /\ fn_out = Pending
    /\ fn_out' = _validate_password(fn_in.args[1], fn_in.args[2])
    /\ UNCHANGED <<storeVars, siteVars, last, activations, fn_in, raceVars>>

ValidateEmail ==
    /\ fn_in.fn = "_validate_email"
    /\ fn_out = Pending
    /\ fn_out' = _validate_email(fn_in.args[1])
    /\ UNCHANGED <<storeVars, siteVars, last, activations, fn_in, raceVars>>

InitValidate ==
    /\ users = {}
    /\ registrations = {}
    /\ profiles = {}
    /\ tags = {}
    /\ settings = Settings(FALSE, None, None)
    /\ IdleSite
    /\ last = NoCall
    /\ activations = [first |-> {}, again |-> {}]
    /\ fn_in \in FnInputs
    /\ fn_out = Pending
    /\ IdleRace

NextValidate == ValidateUsername \/ ValidatePassword \/ ValidateEmail

SpecValidate == InitValidate /\ [][NextValidate]_vars

\* C8: _validate_password(password, username) raises AccountPasswordInvalid
\* exactly when password is not a string, is shorter than 2 or longer than 75
\* characters, or is equal to username, and returns None otherwise; called
\* with the same value for both it always raises.
C8_ValidatePassword ==
    (fn_in.fn = "_validate_password" /\ fn_out # Pending) =>
        LET password == fn_in.args[1]
            username == fn_in.args[2]
            bad == \/ ~password.isstr
                   \/ Len(password.v) < 2
                   \/ Len(password.v) > 75
                   \/ password = username
        IN /\ bad => fn_out = Raise("AccountPasswordInvalid")
           /\ ~bad => fn_out = Ok(None)
           /\ password = username => fn_out.kind = "AccountPasswordInvalid"

\* A password of acceptable length was refused because it is the username.
C8_Witness ==
    /\ fn_in.fn = "_validate_password"
    /\ fn_out.kind = "AccountPasswordInvalid"
    /\ fn_in.args[1] = fn_in.args[2]
    /\ fn_in.args[1].isstr
    /\ Len(fn_in.args[1].v) \in 2..75

----------------------------------------------------------------------------
(* The profile service over two existing accounts *)

\* The store after create_account for bob and for alice.
TwoAccounts ==
    create_account(
        create_account(EmptyDb, bob, secret, bob_mail,
                       Str(<<HexDigits[1]>>), "none").db,
        alice, secret, alice_mail, Str(<<HexDigits[2]>>), "none").db

UpdateEmailOptInAny ==
    \E u \in users, org \in Orgs, optin \in BOOLEAN, track_raises \in BOOLEAN :
        UpdateEmailOptInWith(u.username, org, optin, track_raises)

InitProfile ==
    /\ users = TwoAccounts.users
    /\ registrations = TwoAccounts.registrations
    /\ profiles = TwoAccounts.profiles
    /\ tags = {}
    /\ settings \in {Settings(seg, None, None) : seg \in BOOLEAN}
    /\ IdleSite
    /\ last = NoCall
    /\ activations = [first |-> {}, again |-> {}]
    /\ IdleFn
    /\ IdleRace

NextProfile == UpdateEmailOptInAny \/ SetYearOfBirth

SpecProfile == InitProfile /\ [][NextProfile]_vars

\* The rows of the opt-in preference of (username, org).
OptInRows(rows, username, org) ==
    {t \in rows : t.user = username /\ t.org = org /\ t.key = "email-optin"}

OptInRowsOf(request) == OptInRows(tags, request[1], request[2])

YearOfBirth(username) ==
    (CHOOSE q \in profiles : q.user = username).year_of_birth

\* C9: update_email_opt_in(user, org, optin) stores for (user, org,
\* 'email-optin') the text of optin AND of_age, of_age holding when the
\* year of birth is unset or the current year minus it is greater than 13:
\* "True" for optin true and no year of birth or age 14 and more, "False" for
\* age 13 and less whatever optin is, and "False" for optin false.
C9_OptInValue ==
    [][ last'.op = "update_email_opt_in" =>
          LET username == last'.args[1]
              org == last'.args[2]
              optin == last'.args[3]
              yob == YearOfBirth(username)
              expected ==
                  IF yob = None THEN (IF optin THEN "True" ELSE "False")
                  ELSE IF CurrentYear - yob.v[1] > 13
                  THEN (IF optin THEN "True" ELSE "False")
                  ELSE "False"
          IN \E t \in OptInRows(tags', username, org) : t.value = expected
      ]_vars

\* A user of age 13 asked to opt in and "False" was stored.
C9_Witness ==
    /\ last.op = "update_email_opt_in"
    /\ last.args[3] = TRUE
    /\ YearOfBirth(last.args[1]) = PyInt(CurrentYear - 13)
    /\ \E t \in OptInRows(tags, last.args[1], last.args[2]) : t.value = "False"

\* C10: a (user, org) pair has at most one 'email-optin' row; after an
\* update_email_opt_in call for the pair the row exists and holds the value
\* that call computed, replacing the earlier one; the rows of every other
\* pair are as before the call, and no other step changes a row.
C10_OptInUpsert ==
    [][ /\ \A u \in users' : \A org \in Orgs :
             Cardinality(OptInRows(tags', u.username, org)) <= 1
        /\ last'.op = "update_email_opt_in" =>
             /\ Cardinality(OptInRows(tags', last'.args[1], last'.args[2])) = 1
             /\ \A t \in OptInRows(tags', last'.args[1], last'.args[2]) :
                  t.value = str(last'.args[3] /\
                                (\/ YearOfBirth(last'.args[1]) = None
                                 \/ YearOfBirth(last'.args[1]).v[1]
                                       < CurrentYear - EMAIL_OPTIN_MINIMUM_AGE))
             /\ tags' \ OptInRows(tags', last'.args[1], last'.args[2])
                  = tags \ OptInRows(tags, last'.args[1], last'.args[2])
        /\ last'.op # "update_email_opt_in" => tags' = tags
      ]_vars

\* A call replaced the value stored for its pair while another pair's row,
\* written earlier, is still there.
C10_Witness ==
    /\ last.op = "update_email_opt_in"
    /\ \E t \in tags : t.user = last.args[1] /\ t.org = last.args[2]
                       /\ t.value = "False"
    /\ \E t \in tags : (t.user # last.args[1] \/ t.org # last.args[2])
                       /\ t.value = "True"
    /\ Cardinality(tags) >= 3

\* C13: when analytics is configured and the analytics call of
\* update_email_opt_in raises, the preference is stored all the same and the
\* call returns normally.
C13_EmitFailureSwallowed ==
    ( /\ last.op = "update_email_opt_in"
      /\ settings.SEGMENT_IO_LMS
      /\ last.args[4] )
    => /\ OptInRowsOf(last.args) # {}
       /\ last.result = Ok(None)

\* The age the service computes for a user whose year of birth is set.
ComputedAge(username) == CurrentYear - YearOfBirth(username).v[1]

Underage(username) ==
    /\ YearOfBirth(username) # None
    /\ ComputedAge(username) < EMAIL_OPTIN_MINIMUM_AGE

\* C11 as stated: in every state the stored opt-in value of a user whose
\* computed age is below the minimum age is "False".
C11_UnderageNeverOptedIn ==
    \A t \in tags :
        (t.key = "email-optin" /\ Underage(t.user)) => t.value = "False"

\* C11, amended: the value is forced at the write and not afterwards.  An
\* update_email_opt_in call for a user whose computed age is below the minimum
\* age at the time of the call leaves "False" stored for the pair, whatever
\* opt-in was requested; a change of the year of birth leaves every stored
\* value as it was.
C11_ForcedAtWrite ==
    [][ /\ ( /\ last'.op = "update_email_opt_in"
             /\ Underage(last'.args[1]) )
           => /\ OptInRows(tags', last'.args[1], last'.args[2]) # {}
              /\ \A t \in OptInRows(tags', last'.args[1], last'.args[2]) :
                   t.value = "False"
        /\ last'.op = "set_year_of_birth" => tags' = tags
      ]_vars

\* A user of age 12 asked to opt in, after an earlier call had stored "True"
\* for another organisation, and "False" was stored.
C11_Witness ==
    /\ last.op = "update_email_opt_in"
    /\ last.args[3] = TRUE
    /\ Underage(last.args[1])
    /\ \E t \in OptInRows(tags, last.args[1], last.args[2]) : t.value = "False"
    /\ \E t \in tags : t.user = last.args[1] /\ t.value = "True"

----------------------------------------------------------------------------
(* Two create_account calls at once.  Each call runs in its own transaction: *)
(* tx[p] holds the rows it wrote and has not committed.  The rows a call     *)
(* reads are the committed ones and its own.                                 *)

RaceRequests ==
    {<<u, pw, e>> : u \in {bob, alice}, pw \in {secret, Str(<<"s">>)},
                    e \in {bob_mail, alice_mail}}

View(p) == Db(users \cup tx[p].users,
              registrations \cup tx[p].registrations,
              profiles \cup tx[p].profiles)

InsertNeverWaits(p, username, email) == FALSE

\* user.save() of call p waits while the open transaction of another call
\* holds a row with the username or the e-mail address: the store decides the
\* uniqueness of the row once that transaction has ended.
InsertWaits(p, username, email) ==
    \E q \in Procs \ {p} : UserConflicts(tx[q], username, email)

RaceValidate(p) ==
    /\ pc[p] = "validate"
    /\ LET valid == validate_all(req[p][1], req[p][2], req[p][3]) IN
       IF valid.kind = "ok"
       THEN /\ pc' = [pc EXCEPT ![p] = "save_user"]
            /\ res' = res
       ELSE /\ pc' = [pc EXCEPT ![p] = "done"]
            /\ res' = [res EXCEPT ![p] = intercept_errors(valid)]
    /\ UNCHANGED <<storeVars, siteVars, last, activations, fnVars, req, local, tx>>

RaceSaveUser(p) ==
    /\ pc[p] = "save_user"
    /\ ~InsertWaits(p, req[p][1], req[p][3])
    /\ LET saved == user_save(View(p), NewUser(req[p][1], req[p][2], req[p][3])) IN
       IF saved.err = "none"
       THEN /\ tx' = [tx EXCEPT ![p].users = @ \cup {NewUser(req[p][1], req[p][2], req[p][3])}]
            /\ pc' = [pc EXCEPT ![p] = "register"]
            /\ res' = res
       ELSE /\ tx' = [tx EXCEPT ![p] = EmptyDb]
            /\ pc' = [pc EXCEPT ![p] = "done"]
            /\ res' = [res EXCEPT ![p] =
                          intercept_errors(Raise("AccountUserAlreadyExists"))]
    /\ UNCHANGED <<storeVars, siteVars, last, activations, fnVars, req, local>>

RaceRegister(p) ==
    /\ pc[p] = "register"
    /\ \E key \in FreshKeys \ UNION {{r.activation_key : r \in tx[q].registrations}
                                        : q \in Procs} :
         tx' = [tx EXCEPT ![p] = Registration_register(@, req[p][1], key)]
    /\ pc' = [pc EXCEPT ![p] = "save_profile"]
    /\ UNCHANGED <<storeVars, siteVars, last, activations, fnVars, req, local, res>>

RaceSaveProfile(p) ==
    /\ pc[p] = "save_profile"
    /\ tx' = [tx EXCEPT ![p] = UserProfile_save(@, req[p][1])]
    /\ pc' = [pc EXCEPT ![p] = "return"]
    /\ UNCHANGED <<storeVars, siteVars, last, activations, fnVars, req, local, res>>

\* The return of the activation key, on which commit_on_success commits.
RaceReturn(p) ==
    /\ pc[p] = "return"
    /\ Commit(View(p))
    /\ tx' = [tx EXCEPT ![p] = EmptyDb]
    /\ pc' = [pc EXCEPT ![p] = "done"]
    /\ res' = [res EXCEPT ![p] =
                  intercept_errors(Ok((CHOOSE r \in tx[p].registrations :
                                          r.user = req[p][1]).activation_key))]
    /\ UNCHANGED <<tags, siteVars, last, activations, fnVars, req, local>>

InitRace ==
    /\ users = {}
    /\ registrations = {}
    /\ profiles = {}
    /\ tags = {}
    /\ settings = Settings(FALSE, None, None)
    /\ IdleSite
    /\ last = NoCall
    /\ activations = [first |-> {}, again |-> {}]
    /\ IdleFn
    /\ pc = [p \in Procs |-> "validate"]
    /\ req \in [Procs -> RaceRequests]
    /\ tx = [p \in Procs |-> EmptyDb]
    /\ res = [p \in Procs |-> Pending]
    /\ local = [p \in Procs |-> <<>>]

NextRace ==
    \E p \in Procs :
        \/ RaceValidate(p)
        \/ RaceSaveUser(p)
        \/ RaceRegister(p)
        \/ RaceSaveProfile(p)
        \/ RaceReturn(p)

SpecRace == InitRace /\ [][NextRace]_vars

\* C3: when two create_account calls with the same username and valid
\* arguments have both ended, in whatever order their steps ran, one returned
\* a non-empty activation key, the other raised AccountUserAlreadyExists, and
\* the store holds one account with that username.
C3_OneWinner ==
    ( /\ \A p \in Procs : pc[p] = "done"
      /\ \A p \in Procs : ValidTriple(req[p])
      /\ \A p, q \in Procs : req[p][1] = req[q][1] )
    => /\ \E w \in Procs :
            /\ res[w].kind = "ok"
            /\ res[w].val.isstr
            /\ Len(res[w].val.v) > 0
            /\ \E r \in registrations : r.activation_key = res[w].val
            /\ \A l \in Procs \ {w} : res[l] = Raise("AccountUserAlreadyExists")
       /\ \A p \in Procs :
            Cardinality({u \in users : u.username = req[p][1]}) = 1

\* Both calls ended, with one username and two e-mail addresses, and the
\* first of them lost.
C3_Witness ==
    /\ \A p \in Procs : pc[p] = "done"
    /\ req["p1"][1] = req["p2"][1]
    /\ req["p1"][3] # req["p2"][3]
    /\ res["p1"].kind = "AccountUserAlreadyExists"
    /\ res["p2"].kind = "ok"

----------------------------------------------------------------------------
(* Two update_email_opt_in calls at once.  The call is not wrapped in a      *)
(* transaction of its own; each statement it sends to the store is one step. *)

OptInRequests ==
    {<<bob, org, optin>> : org \in Orgs, optin \in BOOLEAN}

\* except IntegrityError, had the handler let the error go: intercept_errors
\* turns it into ProfileInternalError.
integrity_error_raised(p) ==
    /\ res' = [res EXCEPT ![p] = profile_intercept_errors(Raise("IntegrityError"))]
    /\ log' = log

\* except IntegrityError as err: log.warn(...), and the call returns None.
integrity_error_logged(p) ==
    /\ res' = [res EXCEPT ![p] = profile_intercept_errors(Ok(None))]
    /\ log' = log \cup {[call |-> p, level |-> "warn", err |-> "IntegrityError"]}

\* account_settings = get_account_settings(user); of_age = ...
OptRead(p) ==
    /\ pc[p] = "read"
    /\ local' = [local EXCEPT ![p] =
          [of_age |-> of_age(get_account_settings(TheDb, req[p][1]).year_of_birth)]]
    /\ pc' = [pc EXCEPT ![p] = "get"]
    /\ UNCHANGED <<storeVars, siteVars, last, activations, fnVars, req, tx, res>>

\* get_or_create, its lookup: the row when it is there, else on to the INSERT.
OptGet(p) ==
    /\ pc[p] = "get"
    /\ pc' = [pc EXCEPT ![p] =
                 IF OptInRowsOf(req[p]) # {} THEN "save" ELSE "create"]
    /\ UNCHANGED <<storeVars, siteVars, last, activations, fnVars, req, tx, res, local>>

\* get_or_create, its INSERT.  When another call has inserted the row since
\* the lookup the store raises IntegrityError; get_or_create then looks the
\* row up once more and returns it when this call can read it, and lets the
\* IntegrityError out when it cannot (the row is outside the snapshot the
\* call reads from).
OptCreate(p) ==
    /\ pc[p] = "create"
    /\ IF OptInRowsOf(req[p]) = {}
       THEN /\ tags' = UserOrgTag_insert(tags, req[p][1], req[p][2], "email-optin", "")
            /\ pc' = [pc EXCEPT ![p] = "save"]
            /\ UNCHANGED <<res, log>>
       ELSE \/ /\ pc' = [pc EXCEPT ![p] = "save"]
               /\ UNCHANGED <<tags, res, log>>
            \/ /\ integrity_error_logged(p)
               /\ pc' = [pc EXCEPT ![p] = "done"]
               /\ tags' = tags
    /\ UNCHANGED <<users, registrations, profiles, settings, commerceVars, storage,
                   langVars, last, activations, fnVars, req, tx, local>>

\* preference.value = str(optin and of_age); preference.save(); the analytics
\* call when analytics is configured; return.
OptSave(p) ==
    /\ pc[p] = "save"
    /\ tags' = UserOrgTag_upsert(tags, req[p][1], req[p][2], "email-optin",
                                 str(req[p][3] /\ local[p].of_age))
    /\ pc' = [pc EXCEPT ![p] = "done"]
    /\ res' = [res EXCEPT ![p] = profile_intercept_errors(Ok(None))]
    /\ ~settings.SEGMENT_IO_LMS
    /\ UNCHANGED <<users, registrations, profiles, siteVars, last, activations,
                   fnVars, req, tx, local>>

InitOptRace ==
    /\ users = TwoAccounts.users
    /\ registrations = TwoAccounts.registrations
    /\ \E year \in YearInputs :
         profiles = {IF q.user = bob THEN [q EXCEPT !.year_of_birth = year] ELSE q
                        : q \in TwoAccounts.profiles}
    /\ tags = {}
    /\ settings = Settings(FALSE, None, None)
    /\ IdleSite
    /\ last = NoCall
    /\ activations = [first |-> {}, again |-> {}]
    /\ IdleFn
    /\ pc = [p \in Procs |-> "read"]
    /\ req \in [Procs -> OptInRequests]
    /\ tx = [p \in Procs |-> EmptyDb]
    /\ res = [p \in Procs |-> Pending]
    /\ local = [p \in Procs |-> <<>>]

NextOptRace ==
    \E p \in Procs :
        \/ OptRead(p)
        \/ OptGet(p)
        \/ OptCreate(p)
        \/ OptSave(p)

SpecOptRace == InitOptRace /\ [][NextOptRace]_vars

\* The calls whose get_or_create let the IntegrityError out.
HitIntegrityError == {l.call : l \in log}

\* C12: when two update_email_opt_in calls for one (user, org) pair that has
\* no row have both ended, every call returned normally, the call that got
\* the IntegrityError included, the pair has exactly one 'email-optin' row,
\* and when a call got the IntegrityError the row holds the value the other
\* call wrote.
C12_RaceLoserSilent ==
    ( /\ \A p \in Procs : pc[p] = "done"
      /\ \A p, q \in Procs : req[p][1] = req[q][1] /\ req[p][2] = req[q][2] )
    => /\ \A p \in Procs : res[p] = Ok(None)
       /\ \A p \in Procs : Cardinality(OptInRowsOf(req[p])) = 1
       /\ \A p \in HitIntegrityError :
            /\ Procs \ HitIntegrityError # {}
            /\ \A q \in Procs \ HitIntegrityError :
                 \A t \in OptInRowsOf(req[p]) :
                    t.value = str(req[q][3] /\ local[q].of_age)

\* Both calls ended; the first asked to opt out and got the IntegrityError,
\* the second asked to opt in and its "True" is stored.
C12_Witness ==
    /\ \A p \in Procs : pc[p] = "done"
    /\ req["p1"][2] = req["p2"][2]
    /\ ~req["p1"][3]
    /\ req["p2"][3]
    /\ HitIntegrityError = {"p1"}
    /\ \E t \in OptInRowsOf(req["p2"]) : t.value = "True"

----------------------------------------------------------------------------
(* The purchase view *)

HTTP_200_OK == 200
HTTP_202_ACCEPTED == 202
HTTP_406_NOT_ACCEPTABLE == 406
HTTP_503_SERVICE_UNAVAILABLE == 503

\* A Python dict: its items, as pairs of a key and a value.
dict_get(items, key, default) ==
    IF \E kv \in items : kv[1] = key
    THEN (CHOOSE kv \in items : kv[1] = key)[2]
    ELSE default

\* bool(x) of None, a string or an int.
truthy(x) == IF x.isstr THEN Len(x.v) > 0 ELSE x # None /\ x # PyInt(0)

\* s.strip('/')
RECURSIVE strip(_, _)
strip(s, c) ==
    IF Len(s) > 0 /\ s[1] = c THEN strip(Tail(s), c)
    ELSE IF Len(s) > 0 /\ s[Len(s)] = c THEN strip(SubSeq(s, 1, Len(s) - 1), c)
    ELSE s

\* CourseKey.from_string: org/course/run, three pieces that are not empty.
CourseKey_from_string(course_id) ==
    IF ~course_id.isstr THEN Raise("AttributeError")
    ELSE LET parts == SplitAt(course_id.v, "/") IN
         IF Len(parts) = 3 /\ \A i \in 1..3 : Len(parts[i]) > 0
         THEN Ok([org |-> parts[1], course |-> parts[2], run |-> parts[3]])
         ELSE Raise("InvalidKeyError")

\* unicode(course_key)
unicode(course_key) ==
    Str(course_key.org \o <<"/">> \o course_key.course \o <<"/">> \o course_key.run)

\* The courses of the modulestore.
Courses == {[org |-> <<"e">>, course |-> <<"c">>, run |-> <<"r">>]}

\* courses.get_course(course_key)
get_course(course_key) ==
    IF course_key \in Courses THEN Ok(course_key) ELSE Raise("ValueError")

\* PurchaseView._is_data_valid without the look-up of the course.
_is_data_valid_unchecked(request) ==
    LET data == IF request.DATA.is_none THEN {} ELSE request.DATA.items
        course_id == dict_get(data, "course_id", None)
    IN
    IF ~truthy(course_id)
    THEN [valid |-> FALSE, course_key |-> None, error |-> "course_id field is missing."]
    ELSE LET key == CourseKey_from_string(course_id) IN
         IF key.kind # "ok"
         THEN [valid |-> FALSE, course_key |-> None, error |-> key.kind]
         ELSE [valid |-> TRUE, course_key |-> key.val, error |-> "None"]

\* PurchaseView._is_data_valid: (data_is_valid, course_key, error_msg)
_is_data_valid(request) ==
    LET data == IF request.DATA.is_none THEN {} ELSE request.DATA.items
        course_id == dict_get(data, "course_id", None)
    IN
    IF ~truthy(course_id)
    THEN [valid |-> FALSE, course_key |-> None, error |-> "course_id field is missing."]
    ELSE LET key == CourseKey_from_string(course_id) IN
         IF key.kind # "ok"
         THEN [valid |-> FALSE, course_key |-> None, error |-> key.kind]
         ELSE IF get_course(key.val).kind # "ok"
         THEN [valid |-> FALSE, course_key |-> None,
               error |-> get_course(key.val).kind]
         ELSE [valid |-> TRUE, course_key |-> key.val, error |-> "None"]

\* PurchaseView._get_jwt: the token, which carries the user's name and
\* e-mail address and is signed with the key.
_get_jwt(user, cfg) ==
    [username |-> user.username, email |-> user.email,
     signed_with |-> cfg.ECOMMERCE_API_SIGNING_KEY]

\* CourseEnrollment.enroll(user, course_key, True): the user's enrollment in
\* the course exists and is active afterwards.
CourseEnrollment_enroll(rows, user, course_key) ==
    {e \in rows : ~(e.user = user.username /\ e.course_id = course_key)}
        \cup {[user |-> user.username, course_id |-> course_key, is_active |-> TRUE]}

\* The record of a call of PurchaseView._enroll.
EnrollCall(user, course_key) ==
    [call |-> "enroll", user |-> user.username, course_key |-> course_key]

\* DetailResponse(message, status)
DetailResponse(message, status) ==
    Ok([status |-> status, detail |-> message])

\* ApiErrorResponse()
ApiErrorResponse ==
    DetailResponse("Call to E-Commerce API failed. Order creation failed.",
                   HTTP_503_SERVICE_UNAVAILABLE)

\* CourseMode.DEFAULT_MODE_SLUG
DEFAULT_MODE_SLUG == "honor"

\* commerce.constants.OrderStatus
OrderStatus ==
    [OPEN |->
        Str(<<"O","p","e","n">>),
     ORDER_CANCELLED |->
        Str(<<"O","r","d","e","r"," ","C","a","n","c","e","l","l","e","d">>),
     BEING_PROCESSED |->
        Str(<<"B","e","i","n","g"," ","P","r","o","c","e","s","s","e","d">>),
     PAYMENT_CANCELLED |->
        Str(<<"P","a","y","m","e","n","t"," ","C","a","n","c","e","l","l","e","d">>),
     PAID |->
        Str(<<"P","a","i","d">>),
     FULFILLMENT_ERROR |->
        Str(<<"F","u","l","f","i","l","l","m","e","n","t"," ","E","r","r","o","r">>),
     COMPLETE |->
        Str(<<"C","o","m","p","l","e","t","e">>),
     REFUNDED |->
        Str(<<"R","e","f","u","n","d","e","d">>)]

\* not (ecommerce_api_url and ecommerce_api_signing_key), with "or" for "and".
api_is_setup_either(cfg) ==
    truthy(cfg.ECOMMERCE_API_URL) \/ truthy(cfg.ECOMMERCE_API_SIGNING_KEY)

\* ecommerce_api_url and ecommerce_api_signing_key
api_is_setup(cfg) ==
    truthy(cfg.ECOMMERCE_API_URL) /\ truthy(cfg.ECOMMERCE_API_SIGNING_KEY)

\* CourseMode.objects.filter(course_id=course_key, mode_slug=mode,
\*                           sku__isnull=False)
course_modes_filter(modes, course_key, mode) ==
    {m \in modes : m.course_id = course_key /\ m.mode_slug = mode /\ m.sku # None}

\* response.json(): the body as a Python value, or JSONDecodeError.
response_json(api) ==
    IF api.body.kind = "text" THEN Raise("JSONDecodeError") ELSE Ok(api.body)

\* data.get(key) of the value response.json() returned: a dict has get, a
\* list has not.
data_get(data, key) ==
    IF data.kind = "object" THEN Ok(dict_get(data.items, key, None))
    ELSE Raise("AttributeError")

\* The record of the requests.post call.
PostCall(cfg, user, sku) ==
    [call |-> "requests.post",
     url |-> Str(strip(cfg.ECOMMERCE_API_URL.v, "/") \o <<"/","o","r","d","e","r">>),
     data |-> {<<"sku", sku>>},
     headers |-> {<<"Content-Type", "application/json">>,
                  <<"Authorization", _get_jwt(user, cfg)>>}]

Handled(result, rows, effects) ==
    [result |-> result, enrollments |-> rows, effects |-> effects]

\* PurchaseView.post: the response (or the exception that leaves the view),
\* the enrollments afterwards, and the calls it made, in order.
post(request, cfg, modes, rows, api) ==
    LET user == request.user
        checked == _is_data_valid(request)
        course_key == checked.course_key
        skus == course_modes_filter(modes, course_key, DEFAULT_MODE_SLUG)
        enrolled == CourseEnrollment_enroll(rows, user, course_key)
        called == <<PostCall(cfg, user, (CHOOSE m \in skus : TRUE).sku)>>
    IN
    IF ~checked.valid
    THEN Handled(DetailResponse(checked.error, HTTP_406_NOT_ACCEPTABLE), rows, <<>>)
    ELSE IF ~api_is_setup(cfg)
    THEN Handled(DetailResponse("E-Commerce API not setup. Enrolled directly.",
                                HTTP_200_OK),
                 enrolled, <<EnrollCall(user, course_key)>>)
    ELSE IF skus = {}
    THEN Handled(DetailResponse("The mode does not have a SKU. Enrolling directly.",
                                HTTP_200_OK),
                 enrolled, <<EnrollCall(user, course_key)>>)
    ELSE IF api.raised
    THEN Handled(ApiErrorResponse, rows, called)
    ELSE IF response_json(api).kind # "ok"
    THEN Handled(ApiErrorResponse, rows, called)
    ELSE LET data == response_json(api).val IN
         IF api.status_code = HTTP_200_OK
         THEN LET order_status == data_get(data, "status") IN
              IF order_status.kind # "ok"
              THEN Handled(Raise(order_status.kind), rows, called)
              ELSE IF order_status.val = OrderStatus.COMPLETE
              THEN Handled(DetailResponse("Order was completed.", HTTP_200_OK),
                           rows, called)
              ELSE Handled(DetailResponse(
                               "Order was created, but is not yet complete. User was enrolled.",
                               HTTP_202_ACCEPTED),
                           enrolled, called \o <<EnrollCall(user, course_key)>>)
         ELSE IF data_get(data, "user_message").kind # "ok"
         THEN Handled(Raise(data_get(data, "user_message").kind), rows, called)
         ELSE Handled(ApiErrorResponse, rows, called)

\* course_id values a request may carry: None, the empty string, numbers, a
\* string that is no course key, the key of no course, the key of a course.
CourseIdInputs ==
    {None, Str(<<>>), PyInt(0), PyInt(5), Str(<<"e","/","c">>),
     Str(<<"e","/","c","/","x">>), Str(<<"e","/","c","/","r">>)}

\* request.DATA: None, an empty dict, a dict with course_id.
DataInputs ==
    {[is_none |-> TRUE, items |-> {}], [is_none |-> FALSE, items |-> {}]}
    \cup {[is_none |-> FALSE, items |-> {<<"course_id", v>>}] : v \in CourseIdInputs}

\* The bodies the order API may answer with: text that is not JSON, a JSON
\* array, JSON objects with and without a status.
ApiBodies ==
    {[kind |-> "text", items |-> {}],
     [kind |-> "array", items |-> {}],
     [kind |-> "object", items |-> {}],
     [kind |-> "object", items |-> {<<"user_message", Str(<<"n","o">>)>>}],
     [kind |-> "object",
      items |-> {<<"number", Str(<<"1">>)>>, <<"status", OrderStatus.COMPLETE>>}],
     [kind |-> "object",
      items |-> {<<"number", Str(<<"1">>)>>, <<"status", OrderStatus.OPEN>>}],
     [kind |-> "object",
      items |-> {<<"number", Str(<<"1">>)>>, <<"status", OrderStatus.BEING_PROCESSED>>}]}

\* What requests.post does: it raises, or returns a response.
ApiOutcomes ==
    {[raised |-> TRUE, status_code |-> 0, body |-> [kind |-> "text", items |-> {}]]}
    \cup {[raised |-> FALSE, status_code |-> code, body |-> b] :
             code \in {200, 400}, b \in ApiBodies}

\* No call of requests.post was made.
NotCalled ==
    [raised |-> FALSE, status_code |-> 0, body |-> [kind |-> "none", items |-> {}]]

MadeApiCall(effects) ==
    \E i \in 1..Len(effects) : effects[i].call = "requests.post"

\* The outcomes of requests.post in a request: those of the order API when
\* the view calls it.
ApiDraws(request) ==
    IF MadeApiCall(post(request, settings, course_modes, enrollments, NotCalled).effects)
    THEN ApiOutcomes
    ELSE {NotCalled}

Purchase ==
    \E u \in users, data \in DataInputs :
        LET request == [user |-> u, DATA |-> data] IN
        \E api \in ApiDraws(request) :
            LET out == post(request, settings, course_modes, enrollments, api) IN
            /\ enrollments' = out.enrollments
            /\ Called("purchase", <<request, api>>, out.result, out.effects)
            /\ UNCHANGED <<storeVars, settings, log, course_modes, storage, langVars,
                           activations, fnVars, raceVars>>

TheCourse == CHOOSE c \in Courses : TRUE

\* The CourseMode tables: at most one row of a mode for a course.
ModeTables ==
    LET honor == {[course_id |-> TheCourse, mode_slug |-> "honor", sku |-> sku] :
                     sku \in {None, Str(<<"S","1">>)}}
        verified == [course_id |-> TheCourse, mode_slug |-> "verified",
                     sku |-> Str(<<"S","2">>)]
    IN {h \cup v : h \in {{}} \cup {{m} : m \in honor}, v \in {{}, {verified}}}

ApiUrls == {None, Str(<<>>), Str(<<"h",":","/","/","x","/">>)}
SigningKeys == {None, Str(<<"k">>)}

InitCommerce ==
    /\ users = TwoAccounts.users
    /\ registrations = TwoAccounts.registrations
    /\ profiles = TwoAccounts.profiles
    /\ tags = {}
    /\ settings \in {Settings(FALSE, url, key) : url \in ApiUrls, key \in SigningKeys}
    /\ log = {}
    /\ course_modes \in ModeTables
    /\ enrollments = {}
    /\ storage = {}
    /\ IdleLang
    /\ last = NoCall
    /\ activations = [first |-> {}, again |-> {}]
    /\ IdleFn
    /\ IdleRace

NextCommerce == Purchase

SpecCommerce == InitCommerce /\ [][NextCommerce]_vars

\* The request names a course of the modulestore.
Resolvable(request) ==
    /\ ~request.DATA.is_none
    /\ \E kv \in request.DATA.items :
         /\ kv[1] = "course_id"
         /\ \E c \in Courses : kv[2] = unicode(c)

EnrollCalls(effects) ==
    {i \in 1..Len(effects) : effects[i].call = "enroll"}

ApiCalls(effects) ==
    {i \in 1..Len(effects) : effects[i].call = "requests.post"}

RequestedCourse(request) ==
    CHOOSE c \in Courses :
        \E kv \in request.DATA.items : kv[1] = "course_id" /\ kv[2] = unicode(c)

\* Both the base URL and the signing key of the order API are set.
Configured ==
    /\ settings.ECOMMERCE_API_URL.isstr
    /\ settings.ECOMMERCE_API_URL.v # <<>>
    /\ settings.ECOMMERCE_API_SIGNING_KEY.isstr
    /\ settings.ECOMMERCE_API_SIGNING_KEY.v # <<>>

\* The course has a row of the default mode whose SKU is not null.
HasSku(course_key) ==
    \E m \in course_modes :
        m.course_id = course_key /\ m.mode_slug = "honor" /\ m.sku # None

Enrolled(rows, username, course_key) ==
    Cardinality({e \in rows : /\ e.user = username
                              /\ e.course_id = course_key
                              /\ e.is_active}) = 1

\* C15: a valid purchase request, when the order API is not set up (no base
\* URL or no signing key) or the course has no default-mode row with a SKU,
\* is answered with 200 after exactly one enroll call for the user and the
\* course and no call to the order API; the user is enrolled in the course
\* afterwards, once, and the other enrollments are as before.
C15_DirectEnrollment ==
    [][ ( /\ last'.op = "purchase"
          /\ Resolvable(last'.args[1])
          /\ (~Configured \/ ~HasSku(RequestedCourse(last'.args[1]))) )
        => LET username == last'.args[1].user.username
               course_key == RequestedCourse(last'.args[1])
           IN /\ last'.result.kind = "ok"
              /\ last'.result.val.status = 200
              /\ last'.emitted = <<[call |-> "enroll", user |-> username,
                                    course_key |-> course_key]>>
              /\ Enrolled(enrollments', username, course_key)
              /\ {e \in enrollments' : e.user # username}
                    = {e \in enrollments : e.user # username}
      ]_vars

\* The order API is set up and the course has a SKU for a mode that is not
\* the default one only; a second user was enrolled directly.
C15_Witness ==
    /\ last.op = "purchase"
    /\ last.result.kind = "ok"
    /\ last.result.val.status = 200
    /\ Configured
    /\ \E m \in course_modes : m.sku # None
    /\ ~HasSku(TheCourse)
    /\ EnrollCalls(last.emitted) # {}
    /\ Cardinality(enrollments) = 2

\* The request made a call to the order API.
CalledApi == last.op = "purchase" /\ last.args[2] # NotCalled

\* C16: a valid purchase request for a course with a SKU, with the order API
\* set up, is answered with 503 whenever the call to the API raises, returns
\* a body that is not JSON or returns a status code other than 200; the
\* request made one call to the API and enrolled nobody.
C16_ApiFailureIs503 ==
    ( /\ CalledApi
      /\ \/ last.args[2].raised
         \/ last.args[2].body.kind = "text"
         \/ last.args[2].status_code # 200 )
    => /\ last.result.kind = "ok"
       /\ last.result.val.status = 503
       /\ Cardinality(ApiCalls(last.emitted)) = 1
       /\ EnrollCalls(last.emitted) = {}

\* The status of the order the API returned; None when the body has none.
ReturnedStatus(api) == dict_get(api.body.items, "status", None)

\* C17: when the order API answers 200 with a JSON body, status "Complete"
\* gives a 200 response and no enrollment by the request, and every other
\* status, a missing one included, gives a 202 response with the user
\* enrolled.
C17_EnrollUnlessComplete ==
    ( /\ CalledApi
      /\ ~last.args[2].raised
      /\ last.args[2].status_code = 200
      /\ last.args[2].body.kind # "text" )
    => /\ last.result.kind = "ok"
       /\ IF ReturnedStatus(last.args[2]) = OrderStatus.COMPLETE
          THEN /\ last.result.val.status = 200
               /\ EnrollCalls(last.emitted) = {}
          ELSE /\ last.result.val.status = 202
               /\ Cardinality(EnrollCalls(last.emitted)) = 1
               /\ Enrolled(enrollments, last.args[1].user.username,
                           RequestedCourse(last.args[1]))

----------------------------------------------------------------------------
(* Profile images *)

\* A size in bytes, as hi * 2^30 + lo.
Size(hi, lo) == [hi |-> hi, lo |-> lo]
SizeLess(a, b) == a.hi < b.hi \/ (a.hi = b.hi /\ a.lo < b.lo)

\* 2.5 * 1024 * 1024 * 1024
PROFILE_IMAGE_MAX_BYTES == Size(2, 536870912)

\* An uploaded file: its name, its size, its leading bytes (each byte as its
\* two hexadecimal digits) and the content type the client declared.
UploadedFile(name, size, head, content_type) ==
    [name |-> name, size |-> size, head |-> head, content_type |-> content_type]

\* An InvalidProfileImage exception object.
InvalidProfileImage(message) ==
    [isstr |-> FALSE, v |-> <<>>, exc |-> "InvalidProfileImage", message |-> message]

UpperLetters == <<"A","B","C","D","E","F","G","H","I","J","K","L","M","N","O","P","Q","R","S","T","U","V","W","X","Y","Z">>
LowerLetters == <<"a","b","c","d","e","f","g","h","i","j","k","l","m","n","o","p","q","r","s","t","u","v","w","x","y","z">>

\* unicode.lower
lower(s) ==
    [i \in 1..Len(s) |->
        IF \E k \in 1..26 : UpperLetters[k] = s[i]
        THEN LowerLetters[CHOOSE k \in 1..26 : UpperLetters[k] = s[i]]
        ELSE s[i]]

\* Characters outside ASCII.
NonAscii == {"é"}

\* str(x) of a unicode string: its ASCII encoding, UnicodeEncodeError when a
\* character has none.
py_str(x) ==
    IF \E i \in 1..Len(x.v) : x.v[i] \in NonAscii
    THEN Raise("UnicodeEncodeError")
    ELSE Ok(x)

\* str.endswith
endswith(s, suffix) ==
    /\ Len(suffix) <= Len(s)
    /\ SubSeq(s, Len(s) - Len(suffix) + 1, Len(s)) = suffix

\* image_types of validate_profile_image; a magic number is the sequence of
\* the bytes its hexadecimal text stands for.
image_types ==
    [jpeg |-> [extension |-> <<<<".","j","p","e","g">>, <<".","j","p","g">>>>,
               mimetypes |-> <<"image/jpeg", "image/pjpeg">>,
               magic |-> << <<"ff","d8">> >>],
     png |-> [extension |-> << <<".","p","n","g">> >>,
              mimetypes |-> <<"image/png">>,
              magic |-> << <<"89","50","4e","47","0d","0a","1a","0a">> >>],
     gif |-> [extension |-> << <<".","g","i","f">> >>,
              mimetypes |-> <<"image/gif">>,
              magic |-> << <<"47","49","46","38","39","61">>,
                           <<"47","49","46","38","37","61">> >>]]

Range(seq) == {seq[i] : i \in 1..Len(seq)}

\* image_file.read(n).encode('hex'): the first n bytes, fewer at the end of
\* the file.
read_hex(image_file, n) ==
    SubSeq(image_file.head, 1, IF n < Len(image_file.head) THEN n
                               ELSE Len(image_file.head))

\* The type token as a string.
TypeToken(ft) ==
    CASE ft = "jpeg" -> Str(<<"j","p","e","g">>)
      [] ft = "png" -> Str(<<"p","n","g">>)
      [] ft = "gif" -> Str(<<"g","i","f">>)

\* validate_profile_image: the type token it returns, the exception it
\* raises, or the exception object it returns.
validate_profile_image(image_file, content_type) ==
    IF SizeLess(PROFILE_IMAGE_MAX_BYTES, image_file.size)
    THEN [kind |-> "InvalidProfileImage",
          val |-> InvalidProfileImage("file size limit exceeded")]
    ELSE IF SizeLess(image_file.size, Size(0, 4))
    THEN [kind |-> "InvalidProfileImage",
          val |-> InvalidProfileImage("file too small")]
    ELSE IF py_str(image_file.name).kind # "ok"
    THEN py_str(image_file.name)
    ELSE LET filename == lower(py_str(image_file.name).val.v)
             filetype == {ft \in DOMAIN image_types :
                             \E ext \in Range(image_types[ft].extension) :
                                 endswith(filename, ext)}
         IN
         IF filetype = {}
         THEN Ok(InvalidProfileImage("unsupported file extension"))
         ELSE LET ft == CHOOSE t \in filetype : TRUE
                  headers == image_types[ft].magic
              IN
              IF content_type \notin Range(image_types[ft].mimetypes)
              THEN [kind |-> "InvalidProfileImage",
                    val |-> InvalidProfileImage("Mismatch between file type and mimetype")]
              ELSE IF read_hex(image_file, Len(headers[1])) \notin Range(headers)
              THEN [kind |-> "InvalidProfileImage",
                    val |-> InvalidProfileImage("Mismatch between file type and header")]
              ELSE Ok(TypeToken(ft))

PngHead == <<"89","50","4e","47","0d","0a","1a","0a">>
JpegHead == <<"ff","d8","ff","e0","00","10","4a","46">>
Gif89Head == <<"47","49","46","38","39","61","01","00">>
Gif87Head == <<"47","49","46","38","37","61","01","00">>
ZeroHead == <<"00","00","00","00","00","00","00","00">>

\* Sizes and leading bytes of files: of 3 bytes, of 4 bytes, of 100 bytes, of
\* the largest size allowed and of one byte more.
ImageContents ==
    {[size |-> Size(0, 3), head |-> SubSeq(PngHead, 1, 3)],
     [size |-> Size(0, 4), head |-> SubSeq(JpegHead, 1, 4)],
     [size |-> Size(0, 4), head |-> SubSeq(PngHead, 1, 4)]}
    \cup {[size |-> Size(0, 100), head |-> h] :
             h \in {PngHead, JpegHead, Gif89Head, Gif87Head, ZeroHead}}
    \cup {[size |-> PROFILE_IMAGE_MAX_BYTES, head |-> PngHead],
          [size |-> Size(2, 536870913), head |-> PngHead]}

ImageNames ==
    {Str(<<"a",".","p","n","g">>), Str(<<"A",".","P","N","G">>), Str(<<"a",".","j","p","g">>), Str(<<"a",".","j","p","e","g">>),
     Str(<<"a",".","g","i","f">>), Str(<<"a",".","b","m","p">>), Str(<<"p","n","g">>), Str(<<"é",".","p","n","g">>)}

ContentTypes == {"image/png", "image/jpeg", "image/pjpeg", "image/gif", "text/plain"}

ImageInputs ==
    {[fn |-> "validate_profile_image",
      args |-> <<UploadedFile(name, c.size, c.head, ct), ct>>] :
        name \in ImageNames, c \in ImageContents, ct \in ContentTypes}

ValidateProfileImage ==
    /\ fn_in.fn = "validate_profile_image"
    /\ fn_out = Pending
    /\ fn_out' = validate_profile_image(fn_in.args[1], fn_in.args[2])
    /\ UNCHANGED <<storeVars, siteVars, last, activations, fn_in, raceVars>>

InitImageValidate ==
    /\ users = {}
    /\ registrations = {}
    /\ profiles = {}
    /\ tags = {}
    /\ settings = Settings(FALSE, None, None)
    /\ IdleSite
    /\ last = NoCall
    /\ activations = [first |-> {}, again |-> {}]
    /\ fn_in \in ImageInputs
    /\ fn_out = Pending
    /\ IdleRace

NextImageValidate == ValidateProfileImage

SpecImageValidate == InitImageValidate /\ [][NextImageValidate]_vars

\* The types whose extension the name ends with.
TypesOfName(name) ==
    {ft \in {"jpeg", "png", "gif"} :
        \E ext \in CASE ft = "jpeg" -> {Str(<<".","j","p","e","g">>).v, Str(<<".","j","p","g">>).v}
                     [] ft = "png" -> {Str(<<".","p","n","g">>).v}
                     [] ft = "gif" -> {Str(<<".","g","i","f">>).v} :
            /\ Len(name.v) >= Len(ext)
            /\ \A i \in 1..Len(ext) : name.v[Len(name.v) - Len(ext) + i] = ext[i]}

AcceptableSize(size) ==
    /\ size.hi > 0 \/ size.lo >= 4
    /\ size.hi < 2 \/ (size.hi = 2 /\ size.lo <= 536870912)

StartsWith(head, magic) ==
    /\ Len(head) >= Len(magic)
    /\ \A i \in 1..Len(magic) : head[i] = magic[i]

\* C18: for a file whose name ends with a supported extension,
\* validate_profile_image returns the type token of the extension exactly
\* when the size is between 4 and the maximum, the declared content type is
\* one of the type's and the file starts with one of the type's magic
\* numbers, and raises InvalidProfileImage otherwise.
C18_ValidateImage ==
    ( /\ fn_in.fn = "validate_profile_image"
      /\ fn_out # Pending
      /\ TypesOfName(fn_in.args[1].name) # {} )
    => LET file == fn_in.args[1]
           ft == CHOOSE t \in TypesOfName(file.name) : TRUE
           accepted ==
               /\ AcceptableSize(file.size)
               /\ CASE ft = "jpeg" -> /\ fn_in.args[2] \in {"image/jpeg", "image/pjpeg"}
                                      /\ StartsWith(file.head, <<"ff","d8">>)
                    [] ft = "png" -> /\ fn_in.args[2] = "image/png"
                                     /\ StartsWith(file.head, PngHead)
                    [] ft = "gif" -> /\ fn_in.args[2] = "image/gif"
                                     /\ \/ StartsWith(file.head, SubSeq(Gif89Head, 1, 6))
                                        \/ StartsWith(file.head, SubSeq(Gif87Head, 1, 6))
       IN IF accepted
          THEN fn_out = Ok(TypeToken(ft))
          ELSE fn_out.kind = "InvalidProfileImage"

\* C19: for a file of acceptable size whose name ends with none of the
\* supported extensions, validate_profile_image raises InvalidProfileImage.
C19_UnsupportedExtensionRaises ==
    ( /\ fn_in.fn = "validate_profile_image"
      /\ fn_out # Pending
      /\ AcceptableSize(fn_in.args[1].size)
      /\ TypesOfName(Str(lower(fn_in.args[1].name.v))) = {} )
    => fn_out.kind = "InvalidProfileImage"

----------------------------------------------------------------------------
(* The profile image endpoint *)

HTTP_400_BAD_REQUEST == 400

\* rest_framework's Response: a status and the data of the body.
Response(data, status) == Ok([status |-> status, data |-> data])

\* hashlib.md5(username).hexdigest(): a text of hexadecimal digits that
\* stands for the username and for no other.
md5_hexdigest(username) == [md5 |-> username.v]

\* '{}'.format(x): the text of a string is the string; the text of an
\* exception is its message.  The only exception object that reaches a
\* format is the one validate_profile_image returns.
format(x) ==
    IF x.isstr THEN x.v
    ELSE CASE x.message = "unsupported file extension" ->
              <<"u","n","s","u","p","p","o","r","t","e","d"," ","f","i","l","e"," ","e","x","t","e","n","s","i","o","n">>

\* A file name of the storage: a digest, the text after it, and the number
\* the storage added to make the name free (0 for none).
FileName(digest, text, count) == [digest |-> digest, text |-> text, count |-> count]

ValidNameChars ==
    Range(UpperLetters) \cup Range(LowerLetters)
        \cup {"0","1","2","3","4","5","6","7","8","9","-","_","."}

\* get_valid_filename of a text: spaces become underscores, and what is
\* left keeps letters, digits, dashes, underscores and dots only.
RECURSIVE get_valid_filename(_)
get_valid_filename(s) ==
    IF s = <<>> THEN <<>>
    ELSE LET c == IF Head(s) = " " THEN "_" ELSE Head(s)
         IN IF c \in ValidNameChars
            THEN <<c>> \o get_valid_filename(Tail(s))
            ELSE get_valid_filename(Tail(s))

\* storage.get_valid_name; the hexadecimal digits of a digest are kept.
get_valid_name(name) ==
    FileName(name.digest, get_valid_filename(name.text), name.count)

storage_exists(files, name) == \E f \in files : f.name = name

storage_delete(files, name) == {f \in files : f.name # name}

\* storage.get_available_name: the name itself when it is free, else the
\* name with the first free number.
get_available_name(files, name) ==
    IF ~storage_exists(files, name) THEN name
    ELSE LET numbered(k) == FileName(name.digest, name.text, k)
             n == CHOOSE k \in 1..(Cardinality(files) + 1) :
                      /\ ~storage_exists(files, numbered(k))
                      /\ \A j \in 1..(k - 1) : storage_exists(files, numbered(j))
         IN numbered(n)

\* storage.save: the files afterwards and the name the file got.
storage_save(files, name, content) ==
    LET saved == get_available_name(files, name)
    IN [storage |-> files \cup {[name |-> saved, content |-> content]},
        path |-> saved]

\* store_profile_image: the files afterwards and the path it returns.
store_profile_image(files, image_file, username, extension) ==
    LET dest_name == get_valid_name(
                         FileName(md5_hexdigest(username),
                                  <<"_","p","r","o","f","i","l","e","_","o","r","i","g",".">> \o format(extension), 0))
        cleared == IF storage_exists(files, dest_name)
                   THEN storage_delete(files, dest_name)
                   ELSE files
    IN storage_save(cleared, dest_name, image_file)

StoreCall(image_file, username, extension) ==
    [fn |-> "store_profile_image", args |-> <<image_file, username, extension>>]

\* ProfileImageUploadView.post: its outcome, the files afterwards and the
\* calls of store_profile_image it made.
upload_post(request, username, files) ==
    IF "file" \notin DOMAIN request.FILES
    THEN [result |-> Raise("Exception"), storage |-> files, effects |-> <<>>]
    ELSE LET uploaded_file == request.FILES.file
             file_type == validate_profile_image(uploaded_file,
                                                 uploaded_file.content_type)
         IN
         IF file_type.kind = "InvalidProfileImage"
         THEN [result |-> Response([developer_message |-> file_type.val.message,
                                    user_message |-> None],
                                   HTTP_400_BAD_REQUEST),
               storage |-> files, effects |-> <<>>]
         ELSE IF file_type.kind # "ok"
         THEN [result |-> file_type, storage |-> files, effects |-> <<>>]
         ELSE LET stored == store_profile_image(files, uploaded_file, username,
                                                file_type.val)
              IN [result |-> Response([path |-> stored.path], HTTP_200_OK),
                  storage |-> stored.storage,
                  effects |-> <<StoreCall(uploaded_file, username,
                                          file_type.val)>>]

\* The files of the uploads: well-formed images of each type, two PNG files
\* of different content, files that break one rule each, a file of an
\* unsupported extension and a file whose name is not ASCII.
UploadFiles ==
    {UploadedFile(Str(<<"a",".","p","n","g">>), Size(0, 100), PngHead, "image/png"),
     UploadedFile(Str(<<"A",".","P","N","G">>), PROFILE_IMAGE_MAX_BYTES, PngHead, "image/png"),
     UploadedFile(Str(<<"a",".","j","p","g">>), Size(0, 100), JpegHead, "image/jpeg"),
     UploadedFile(Str(<<"a",".","g","i","f">>), Size(0, 100), Gif87Head, "image/gif"),
     UploadedFile(Str(<<"a",".","p","n","g">>), Size(0, 3), SubSeq(PngHead, 1, 3), "image/png"),
     UploadedFile(Str(<<"a",".","p","n","g">>), Size(2, 536870913), PngHead, "image/png"),
     UploadedFile(Str(<<"a",".","p","n","g">>), Size(0, 100), PngHead, "text/plain"),
     UploadedFile(Str(<<"a",".","p","n","g">>), Size(0, 100), JpegHead, "image/png"),
     UploadedFile(Str(<<"a",".","b","m","p">>), Size(0, 100), ZeroHead, "image/png"),
     UploadedFile(Str(<<"é",".","p","n","g">>), Size(0, 100), PngHead, "image/png")}

\* A multipart request: the file under the field "file", or under another
\* field.
UploadRequests ==
    {[FILES |-> [file |-> f]] : f \in UploadFiles}
        \cup {[FILES |-> [other |-> f]] : f \in {CHOOSE g \in UploadFiles : g.size = Size(0, 3)}}

Upload ==
    \E username \in {bob, alice}, request \in UploadRequests :
        LET out == upload_post(request, username, storage) IN
        /\ storage' = out.storage
        /\ Called("upload_image", <<request, username>>, out.result, out.effects)
        /\ UNCHANGED <<storeVars, settings, log, commerceVars, langVars, activations,
                       fnVars, raceVars>>

InitImage ==
    /\ users = TwoAccounts.users
    /\ registrations = TwoAccounts.registrations
    /\ profiles = TwoAccounts.profiles
    /\ tags = {}
    /\ settings = Settings(FALSE, None, None)
    /\ IdleSite
    /\ last = NoCall
    /\ activations = [first |-> {}, again |-> {}]
    /\ IdleFn
    /\ IdleRace

NextImage == Upload

SpecImage == InitImage /\ [][NextImage]_vars

\* Whether the file passes every rule of validation: size, extension,
\* content type and magic number.
PassesValidation(file) ==
    /\ AcceptableSize(file.size)
    /\ \E ft \in TypesOfName(Str(lower(file.name.v))) :
           CASE ft = "jpeg" -> /\ file.content_type \in {"image/jpeg", "image/pjpeg"}
                               /\ StartsWith(file.head, <<"ff","d8">>)
             [] ft = "png" -> /\ file.content_type = "image/png"
                              /\ StartsWith(file.head, PngHead)
             [] ft = "gif" -> /\ file.content_type = "image/gif"
                              /\ \/ StartsWith(file.head, SubSeq(Gif89Head, 1, 6))
                                 \/ StartsWith(file.head, SubSeq(Gif87Head, 1, 6))

Uploaded == last'.op = "upload_image" /\ "file" \in DOMAIN last'.args[1].FILES

\* C20: an upload whose file fails a rule of validation is answered 400 with
\* developer_message and user_message and leaves the store as it was; an
\* upload answered 200 with a path carried a file that passes every rule and
\* called store_profile_image with "jpeg", "png" or "gif".
C20_StoreOnlyValidated ==
    [][Uploaded =>
        LET file == last'.args[1].FILES.file IN
        /\ ~PassesValidation(file) =>
               /\ last'.result.kind = "ok"
               /\ last'.result.val.status = 400
               /\ DOMAIN last'.result.val.data = {"developer_message", "user_message"}
               /\ storage' = storage
        /\ (last'.result.kind = "ok" /\ last'.result.val.status = 200) =>
               /\ PassesValidation(file)
               /\ DOMAIN last'.result.val.data = {"path"}
               /\ Len(last'.emitted) = 1
               /\ last'.emitted[1].args[3] \in {TypeToken(ft) : ft \in {"jpeg", "png", "gif"}}]_vars

----------------------------------------------------------------------------
(* store_profile_image, called on its own *)

\* Two files of different content.
StoreFiles ==
    {UploadedFile(Str(<<"a",".","p","n","g">>), Size(0, 100), PngHead, "image/png"),
     UploadedFile(Str(<<"a",".","p","n","g">>), Size(0, 4), SubSeq(PngHead, 1, 4), "image/png")}

StoreExtensions == {TypeToken(ft) : ft \in {"jpeg", "png", "gif"}}

StoreProfileImage ==
    \E image_file \in StoreFiles, username \in {bob, alice},
       extension \in StoreExtensions :
        LET stored == store_profile_image(storage, image_file, username, extension) IN
        /\ storage' = stored.storage
        /\ Called("store_profile_image", <<image_file, username, extension>>,
                  Ok(stored.path), <<>>)
        /\ UNCHANGED <<storeVars, settings, log, commerceVars, langVars, activations,
                       fnVars, raceVars>>

NextStore == StoreProfileImage

SpecStore == InitImage /\ [][NextStore]_vars

\* The stored images of a user: the files whose name starts with the digest
\* of the username.
ImagesOf(files, username) ==
    {f \in files : f.name.digest = md5_hexdigest(username)}

\* C21: after a call of store_profile_image with "jpeg", "png" or "gif",
\* the store holds exactly one image of the user, the file of the call, and
\* the images of every other user are as they were.
C21_OneImagePerUser ==
    [][last'.op = "store_profile_image" =>
        /\ Cardinality(ImagesOf(storage', last'.args[2])) = 1
        /\ \A f \in ImagesOf(storage', last'.args[2]) : f.content = last'.args[1]
        /\ \A u \in {bob, alice} \ {last'.args[2]} :
               ImagesOf(storage', u) = ImagesOf(storage, u)]_vars

----------------------------------------------------------------------------
(* Language preference middleware *)

\* request.user of a request nobody is logged in for.
AnonymousUser == None

is_authenticated(user) == user # AnonymousUser

\* get_user_preference(user, LANGUAGE_KEY): the stored value, None for none.
get_user_preference(prefs, user) == prefs[user]

\* session[key] = value
session_set(data, key, value) ==
    [k \in DOMAIN data \cup {key} |-> IF k = key THEN value ELSE data[k]]

\* A process_request that does not look at the session.
process_request_clobbering(request, prefs) ==
    IF is_authenticated(request.user)
    THEN LET user_pref == get_user_preference(prefs, request.user) IN
         IF truthy(user_pref)
         THEN session_set(request.session, "django_language", user_pref)
         ELSE request.session
    ELSE request.session

\* LanguagePreferenceMiddleware.process_request: the entries of the session
\* afterwards.
process_request(request, prefs) ==
    IF is_authenticated(request.user)
       /\ "django_language" \notin DOMAIN request.session
    THEN LET user_pref == get_user_preference(prefs, request.user) IN
         IF truthy(user_pref)
         THEN session_set(request.session, "django_language", user_pref)
         ELSE request.session
    ELSE request.session

fr == Str(<<"f","r">>)
de == Str(<<"d","e">>)

SessionIds == {"s1", "s2"}

EmptySession == [k \in {} |-> None]

\* A request of a session passes the middleware.
ProcessRequest ==
    \E sid \in SessionIds :
        LET request == [user |-> sessions[sid].user, session |-> sessions[sid].data] IN
        /\ sessions' = [sessions EXCEPT ![sid].data = process_request(request, preferences)]
        /\ Called("process_request", <<sid>>, Ok(None), <<>>)
        /\ UNCHANGED <<storeVars, settings, log, commerceVars, storage,
                       preferences, activations, fnVars, raceVars>>

\* set_user_preference(user, LANGUAGE_KEY, value): the user stores another
\* language.
SetUserPreference ==
    \E user \in DOMAIN preferences, value \in {fr, de} :
        /\ preferences[user] # value
        /\ preferences' = [preferences EXCEPT ![user] = value]
        /\ Called("set_user_preference", <<user, value>>, Ok(None), <<>>)
        /\ UNCHANGED <<storeVars, settings, log, commerceVars, storage,
                       sessions, activations, fnVars, raceVars>>

\* The dark language middleware sets the language of a session.
DarkLangOverride ==
    \E sid \in SessionIds, value \in {fr, de} :
        /\ sessions' = [sessions EXCEPT
                           ![sid].data = session_set(@, "django_language", value),
                           ![sid].override = TRUE]
        /\ Called("dark_lang", <<sid, value>>, Ok(None), <<>>)
        /\ UNCHANGED <<storeVars, settings, log, commerceVars, storage,
                       preferences, activations, fnVars, raceVars>>

InitLang ==
    /\ users = TwoAccounts.users
    /\ registrations = TwoAccounts.registrations
    /\ profiles = TwoAccounts.profiles
    /\ tags = {}
    /\ settings = Settings(FALSE, None, None)
    /\ log = {}
    /\ course_modes = {}
    /\ enrollments = {}
    /\ storage = {}
    /\ preferences \in [{bob, alice} -> {None, Str(<<>>), fr}]
    /\ sessions \in [SessionIds ->
                        {[user |-> u, data |-> EmptySession, override |-> FALSE] :
                            u \in {bob, AnonymousUser}}]
    /\ last = NoCall
    /\ activations = [first |-> {}, again |-> {}]
    /\ IdleFn
    /\ IdleRace

NextLang == ProcessRequest \/ SetUserPreference \/ DarkLangOverride

SpecLang == InitLang /\ [][NextLang]_vars

\* The language of a session, None for none.
SessionLanguage(s) ==
    IF "django_language" \in DOMAIN s.data THEN s.data.django_language ELSE None

\* C22: a request changes its session only when the caller is authenticated,
\* the session holds no django_language and the caller has a stored language
\* preference that is not empty, and then by setting django_language to the
\* preference; in every other case the session is as it was, and no request
\* changes another session.
C22_SessionOverrideWins ==
    [][last'.op = "process_request" =>
        LET sid == last'.args[1]
            s == sessions[sid]
            pref == IF s.user = None THEN None ELSE preferences[s.user]
        IN
        /\ \A other \in SessionIds \ {sid} : sessions'[other] = sessions[other]
        /\ sessions'[sid].user = s.user
        /\ IF /\ s.user # None
              /\ "django_language" \notin DOMAIN s.data
              /\ pref # None /\ pref # Str(<<>>)
           THEN /\ DOMAIN sessions'[sid].data = {"django_language"}
                /\ sessions'[sid].data.django_language = pref
           ELSE sessions'[sid].data = s.data]_vars

\* A session whose language another middleware set to a language that is
\* not the stored preference of its user has been through a request.
C22_Witness ==
    /\ last.op = "process_request"
    /\ LET s == sessions[last.args[1]] IN
       /\ s.user # None
       /\ s.override
       /\ preferences[s.user] \notin {None, Str(<<>>)}
       /\ SessionLanguage(s) # preferences[s.user]

\* C23: at the end of a request of an authenticated user who has a stored
\* language preference and whose session has no override by the dark
\* language middleware, the language of the session is the stored preference.
C23_SessionFollowsPreference ==
    ( /\ last.op = "process_request"
      /\ sessions[last.args[1]].user # None
      /\ ~sessions[last.args[1]].override
      /\ preferences[sessions[last.args[1]].user] \notin {None, Str(<<>>)} )
    => SessionLanguage(sessions[last.args[1]]) =
           preferences[sessions[last.args[1]].user]

----------------------------------------------------------------------------
(* The exit survey *)

\* exit_survey_questions, each question as its question_name.
exit_survey_questions ==
    [common_questions |->
         <<"future_classes", "future_offerings", "future_updates",
           "favorite_parts", "rating">>,
     random_questions |->
         <<"university_comparison", "smartphone_usage", "improvement_ideas",
           "teach_ee", "highest_degree", "age", "gender", "ee_level",
           "math_level", "why_course", "weekly_hours", "internet_access",
           "work_offline", "online_course_count", "race", "book_count",
           "computer_in_home", "parents_engineering", "engineering">>]

\* The number of questions random.sample draws.
SurveySampleSize == 6

\* range(n): 0, 1, ..., n - 1
range(n) == [i \in 1..n |-> i - 1]

\* A sorted that leaves the list as it is.
sorted_as_given(seq) == seq

\* sorted(seq) of a list of numbers.
sorted(seq) ==
    LET n == Len(seq)
        \* the position of seq[i] in the sorted list: after the smaller
        \* numbers and after the equal ones that come before it
        rank(i) == Cardinality({j \in 1..n : seq[j] < seq[i]
                                             \/ (seq[j] = seq[i] /\ j < i)}) + 1
    IN [r \in 1..n |-> seq[CHOOSE i \in 1..n : rank(i) = r]]

Reverse(seq) == [i \in 1..Len(seq) |-> seq[Len(seq) + 1 - i]]

Rotate(seq) == Tail(seq) \o <<Head(seq)>>

\* random.sample(population, k) of a population of distinct elements:
\* whether a list is one it can give, k distinct elements of the population
\* in any order.
random_sample(sample, population, k) ==
    /\ Len(sample) = k
    /\ \A i \in 1..k : sample[i] \in Range(population)
    /\ \A i, j \in 1..k : i # j => sample[i] # sample[j]

\* exit_survey_list_for_student, chosen_indices being what random.sample
\* gave: the list it returns and exit_survey_questions afterwards.
exit_survey_list_for_student(DEBUG_SURVEY, sample) ==
    LET common_questions == exit_survey_questions.common_questions
        randomized_questions == exit_survey_questions.random_questions
        chosen_indices == IF ~DEBUG_SURVEY THEN sample
                          ELSE range(Len(randomized_questions))
        ordered == sorted(chosen_indices)
        chosen_questions == [k \in 1..Len(ordered) |->
                                randomized_questions[ordered[k] + 1]]
    IN [survey_list |-> common_questions \o chosen_questions,
        exit_survey_questions |-> exit_survey_questions]

\* The orders of a draw: ascending, descending, and ascending from the
\* second element on with the first at the end.
DrawOrders(asc) == {asc, Reverse(asc), Rotate(asc)}

\* The arguments of a call: debug mode or not and, outside debug mode, what
\* random.sample gives, 6 of the 19 positions in one of the orders.
SurveyInput(input) ==
    \E debug \in BOOLEAN :
        IF debug
        THEN input = [fn |-> "exit_survey_list_for_student", args |-> <<TRUE, <<>> >>]
        ELSE \E a \in 0..13 : \E b \in (a + 1)..14 : \E c \in (b + 1)..15 :
             \E d \in (c + 1)..16 : \E e \in (d + 1)..17 : \E f \in (e + 1)..18 :
             \E sample \in DrawOrders(<<a, b, c, d, e, f>>) :
                 input = [fn |-> "exit_survey_list_for_student",
                          args |-> <<FALSE, sample>>]

ExitSurveyListForStudent ==
    /\ fn_in.fn = "exit_survey_list_for_student"
    /\ fn_out = Pending
    /\ fn_out' = Ok(exit_survey_list_for_student(fn_in.args[1], fn_in.args[2]))
    /\ UNCHANGED <<storeVars, siteVars, last, activations, fn_in, raceVars>>

InitSurvey ==
    /\ users = {}
    /\ registrations = {}
    /\ profiles = {}
    /\ tags = {}
    /\ settings = Settings(FALSE, None, None)
    /\ IdleSite
    /\ last = NoCall
    /\ activations = [first |-> {}, again |-> {}]
    /\ SurveyInput(fn_in)
    /\ \/ fn_in.args[1]
       \/ random_sample(fn_in.args[2],
                        range(Len(exit_survey_questions.random_questions)),
                        SurveySampleSize)
    /\ fn_out = Pending
    /\ IdleRace

NextSurvey == ExitSurveyListForStudent

SpecSurvey == InitSurvey /\ [][NextSurvey]_vars

CommonQuestions ==
    <<"future_classes", "future_offerings", "future_updates",
      "favorite_parts", "rating">>

PoolQuestions ==
    <<"university_comparison", "smartphone_usage", "improvement_ideas",
      "teach_ee", "highest_degree", "age", "gender", "ee_level",
      "math_level", "why_course", "weekly_hours", "internet_access",
      "work_offline", "online_course_count", "race", "book_count",
      "computer_in_home", "parents_engineering", "engineering">>

\* The position of a question in the pool, 0 for a question not of the pool.
PoolPosition(q) ==
    IF \E i \in 1..Len(PoolQuestions) : PoolQuestions[i] = q
    THEN CHOOSE i \in 1..Len(PoolQuestions) : PoolQuestions[i] = q
    ELSE 0

SurveyReturned ==
    fn_in.fn = "exit_survey_list_for_student" /\ fn_out # Pending

\* C24: the list returned starts with the common questions in their order
\* and goes on with questions of the pool at ascending positions of the
\* pool: outside debug mode the 6 questions at the positions drawn, the
\* list having 5 + 6 entries; in debug mode the whole pool; and
\* exit_survey_questions is as it was.
C24_SurveyList ==
    SurveyReturned =>
        LET list == fn_out.val.survey_list
            n == Len(CommonQuestions)
            chosen == SubSeq(list, n + 1, Len(list))
        IN
        /\ Len(list) >= n
        /\ SubSeq(list, 1, n) = CommonQuestions
        /\ \A k \in 1..Len(chosen) : PoolPosition(chosen[k]) > 0
        /\ \A k \in 1..(Len(chosen) - 1) :
               PoolPosition(chosen[k]) < PoolPosition(chosen[k + 1])
        /\ IF fn_in.args[1]
           THEN chosen = PoolQuestions
           ELSE /\ Len(list) = n + 6
                /\ {PoolPosition(chosen[k]) - 1 : k \in 1..Len(chosen)}
                       = {fn_in.args[2][k] : k \in 1..Len(fn_in.args[2])}
        /\ fn_out.val.exit_survey_questions.common_questions = CommonQuestions
        /\ fn_out.val.exit_survey_questions.random_questions = PoolQuestions

\* A list was returned for a draw that was not in ascending order and held
\* the first and the last question of the pool.
C24_Witness ==
    /\ SurveyReturned
    /\ ~fn_in.args[1]
    /\ fn_in.args[2][1] > fn_in.args[2][2]
    /\ {0, 18} \subseteq {fn_in.args[2][k] : k \in 1..Len(fn_in.args[2])}
    /\ Len(fn_out.val.survey_list) = 11

----------------------------------------------------------------------------
(* The analytics event of update_email_opt_in *)

\* C25: with analytics configured, a call of update_email_opt_in whose
\* analytics call goes through emits one event, named opted_in when the
\* optin asked for is true and opted_out when it is false, whatever the
\* value stored; no call emits an event of another name; with analytics not
\* configured no event is emitted.
C25_EventFromRequestedOptIn ==
    last.op = "update_email_opt_in" =>
        LET optin == last.args[3]
            name == IF optin THEN "edx.bi.user.org_email.opted_in"
                    ELSE "edx.bi.user.org_email.opted_out"
        IN
        /\ \A i \in 1..Len(last.emitted) :
               /\ last.emitted[i].name = name
               /\ last.emitted[i].user_id = last.args[1]
               /\ last.emitted[i].label = last.args[2]
        /\ ~settings.SEGMENT_IO_LMS => last.emitted = <<>>
        /\ (settings.SEGMENT_IO_LMS /\ ~last.args[4]) => Len(last.emitted) = 1

\* A user below the minimum age asked to opt in with analytics configured:
\* the value stored is "False" and the event emitted is opted_in.
C25_Witness ==
    /\ last.op = "update_email_opt_in"
    /\ settings.SEGMENT_IO_LMS
    /\ last.args[3] = TRUE
    /\ Underage(last.args[1])
    /\ \A t \in OptInRowsOf(last.args) : t.value = "False"
    /\ OptInRowsOf(last.args) # {}
    /\ Len(last.emitted) = 1
    /\ last.emitted[1].name = "edx.bi.user.org_email.opted_in"

=============================================================================
